---- MODULE Spec2Model ----
(***************************************************************************)
(* A model of swhid-go: the SWHID identifier type (construction, parsing,   *)
(* formatting, comparison) with its qualifier codec, and the encoders that  *)
(* hash contents, directories, revisions, releases and snapshots.           *)
(*                                                                          *)
(* Go strings are byte sequences; they are modelled as sequences of byte    *)
(* values 0..255.  B(<<"s","w","h">>) is the Go literal "swh".              *)
(***************************************************************************)
EXTENDS Integers, Sequences, FiniteSets, TLC

VARIABLES input, a, b, src, call

vars == <<input, a, b, src, call>>

(***************************************************************************)
(* Bytes and string literals                                                *)
(***************************************************************************)
Ascii ==
  <<" ", "!", "dq", "#", "$", "%", "&", "'", "(", ")", "*", "+", ",", "-", ".", "/",
    "0", "1", "2", "3", "4", "5", "6", "7", "8", "9", ":", ";", "<", "=", ">", "?",
    "@", "A", "B", "C", "D", "E", "F", "G", "H", "I", "J", "K", "L", "M", "N", "O",
    "P", "Q", "R", "S", "T", "U", "V", "W", "X", "Y", "Z", "[", "bs", "]", "^", "_",
    "bt", "a", "b", "c", "d", "e", "f", "g", "h", "i", "j", "k", "l", "m", "n", "o",
    "p", "q", "r", "s", "t", "u", "v", "w", "x", "y", "z", "{", "|", "}", "~">>

\* The byte value of a printable ASCII character.
Ord == [c \in {Ascii[i] : i \in DOMAIN Ascii} |->
          31 + (CHOOSE i \in DOMAIN Ascii : Ascii[i] = c)]

\* A Go string literal, written as a tuple of its characters.
B(chars) == [i \in 1..Len(chars) |-> Ord[chars[i]]]

\* n copies of the byte string s.
RECURSIVE Rep(_, _)
Rep(s, n) == IF n <= 0 THEN <<>> ELSE s \o Rep(s, n - 1)

\* The concatenation of a sequence of byte strings.
RECURSIVE Concat(_)
Concat(ss) == IF ss = <<>> THEN <<>> ELSE Head(ss) \o Concat(Tail(ss))

Drop(s, n) == SubSeq(s, n + 1, Len(s))
Take(s, n) == SubSeq(s, 1, n)

(***************************************************************************)
(* The Go standard library functions the identifier code calls              *)
(***************************************************************************)

\* strings.Index(s, sep): the 1-based position of the first occurrence of the
\* byte string sep in s, 0 when there is none (Go returns position-1 and -1).
RECURSIVE IndexFrom(_, _, _)
IndexFrom(s, sep, i) ==
  IF i + Len(sep) - 1 > Len(s) THEN 0
  ELSE IF SubSeq(s, i, i + Len(sep) - 1) = sep THEN i
  ELSE IndexFrom(s, sep, i + 1)

Index(s, sep) == IndexFrom(s, sep, 1)

\* strings.Split(s, sep) for a non-empty sep: the substrings between the
\* occurrences of sep; a string without sep gives the one-element list <<s>>.
RECURSIVE Split(_, _)
Split(s, sep) ==
  LET i == Index(s, sep)
  IN  IF i = 0 THEN <<s>>
      ELSE <<Take(s, i - 1)>> \o Split(Drop(s, i + Len(sep) - 1), sep)

\* strings.Join(parts, sep).
RECURSIVE Join(_, _)
Join(parts, sep) ==
  IF parts = <<>> THEN <<>>
  ELSE IF Len(parts) = 1 THEN parts[1]
  ELSE parts[1] \o sep \o Join(Tail(parts), sep)

\* strings.ReplaceAll(s, old, new) for a non-empty old: the non-overlapping
\* occurrences of old, found left to right, replaced by new.
RECURSIVE ReplaceAll(_, _, _)
ReplaceAll(s, old, new) ==
  LET i == Index(s, old)
  IN  IF i = 0 THEN s
      ELSE Take(s, i - 1) \o new \o ReplaceAll(Drop(s, i + Len(old) - 1), old, new)

\* The %d verb of fmt.Sprintf for a non-negative integer.
RECURSIVE Itoa(_)
Itoa(n) ==
  IF n < 10 THEN <<48 + n>> ELSE Itoa(n \div 10) \o <<48 + (n % 10)>>

\* net/url ishex and unhex.
ishex(c) == (c >= 48 /\ c <= 57) \/ (c >= 97 /\ c <= 102) \/ (c >= 65 /\ c <= 70)

unhex(c) ==
  IF c >= 48 /\ c <= 57 THEN c - 48
  ELSE IF c >= 97 /\ c <= 102 THEN c - 97 + 10
  ELSE IF c >= 65 /\ c <= 70 THEN c - 65 + 10
  ELSE 0

\* The first pass of net/url unescape: TRUE when some '%' is not followed by
\* two hex digits (the EscapeError return).
RECURSIVE unescapeFails(_, _)
unescapeFails(s, i) ==
  IF i > Len(s) THEN FALSE
  ELSE IF s[i] = 37
       THEN IF i + 2 > Len(s) \/ ~ishex(s[i + 1]) \/ ~ishex(s[i + 2])
            THEN TRUE
            ELSE unescapeFails(s, i + 3)
       ELSE unescapeFails(s, i + 1)

\* The second pass of net/url unescape in query-component mode: %XX becomes
\* the byte XX and '+' becomes a space.
RECURSIVE unescapeFrom(_, _)
unescapeFrom(s, i) ==
  IF i > Len(s) THEN <<>>
  ELSE IF s[i] = 37
       THEN <<unhex(s[i + 1]) * 16 + unhex(s[i + 2])>> \o unescapeFrom(s, i + 3)
       ELSE IF s[i] = 43
            THEN <<32>> \o unescapeFrom(s, i + 1)
            ELSE <<s[i]>> \o unescapeFrom(s, i + 1)

\* url.QueryUnescape(s): the decoded string and whether an error is returned.
QueryUnescape(s) ==
  IF unescapeFails(s, 1)
  THEN [decoded |-> <<>>, err |-> TRUE]
  ELSE [decoded |-> unescapeFrom(s, 1), err |-> FALSE]

(***************************************************************************)
(* The identifier type                                                      *)
(***************************************************************************)
Scheme == B(<<"s", "w", "h">>)
SchemeVersion == 1

ObjectTypeContent   == B(<<"c", "n", "t">>)
ObjectTypeDirectory == B(<<"d", "i", "r">>)
ObjectTypeRevision  == B(<<"r", "e", "v">>)
ObjectTypeRelease   == B(<<"r", "e", "l">>)
ObjectTypeSnapshot  == B(<<"s", "n", "p">>)

\* The keys of the map validObjectTypes (all mapped to true).
validObjectTypes ==
  {ObjectTypeContent, ObjectTypeDirectory, ObjectTypeRevision,
   ObjectTypeRelease, ObjectTypeSnapshot}

\* hashRegex.MatchString(s) for the pattern ^[0-9a-f]{40}$.
hashRegex(s) ==
  /\ Len(s) = 40
  /\ \A i \in 1..Len(s) : (s[i] >= 48 /\ s[i] <= 57) \/ (s[i] >= 97 /\ s[i] <= 102)

canonicalQualifierOrder ==
  << B(<<"o", "r", "i", "g", "i", "n">>), B(<<"v", "i", "s", "i", "t">>),
     B(<<"a", "n", "c", "h", "o", "r">>), B(<<"p", "a", "t", "h">>),
     B(<<"l", "i", "n", "e", "s">>),      B(<<"b", "y", "t", "e", "s">>) >>

\* The error kinds (what errors.Is tells apart); NoErr is a nil error.
NoErr                == "nil"
ErrEmptySWHID        == "ErrEmptySWHID"
ErrInvalidFormat     == "ErrInvalidFormat"
ErrInvalidScheme     == "ErrInvalidScheme"
ErrInvalidVersion    == "ErrInvalidVersion"
ErrInvalidObjectType == "ErrInvalidObjectType"
ErrInvalidObjectHash == "ErrInvalidObjectHash"

\* A *Identifier is a sequence of length 0 (nil) or 1 (a pointer to the record).
NilId == <<>>
Ptr(rec) == <<rec>>

\* A map[string]string is nil or holds a function from keys to values.
NilMap == [nil |-> TRUE, kv |-> <<>>]
MakeMap(f) == [nil |-> FALSE, kv |-> f]
EmptyMap == MakeMap(<<>>)

\* len(m), m[k] (the zero value "" for a missing key) and m[k] = v.
MapLen(m) == Cardinality(DOMAIN m.kv)
MapGet(m, k) == IF k \in DOMAIN m.kv THEN m.kv[k] ELSE <<>>
MapSet(m, k, v) ==
  MakeMap([x \in (DOMAIN m.kv) \cup {k} |-> IF x = k THEN v ELSE m.kv[x]])

\* The orders in which a range over the map m may yield its keys.
Perms(S) ==
  {f \in [1..Cardinality(S) -> S] : \A x \in S : \E i \in DOMAIN f : f[i] = x}

RangeOrders(m) == Perms(DOMAIN m.kv)

SeqRange(s) == {s[i] : i \in DOMAIN s}

\* NewIdentifier with the hash checked before the object type.
NewIdentifier_hashFirst(objectType, objectHash, qualifiers) ==
  IF ~hashRegex(objectHash)
  THEN [id |-> NilId, err |-> ErrInvalidObjectHash]
  ELSE IF objectType \notin validObjectTypes
  THEN [id |-> NilId, err |-> ErrInvalidObjectType]
  ELSE [id |-> Ptr([Scheme     |-> Scheme,
                    Version    |-> SchemeVersion,
                    ObjectType |-> objectType,
                    ObjectHash |-> objectHash,
                    Qualifiers |-> IF qualifiers.nil THEN EmptyMap ELSE qualifiers]),
        err |-> NoErr]

NewIdentifier(objectType, objectHash, qualifiers) ==
  IF objectType \notin validObjectTypes
  THEN [id |-> NilId, err |-> ErrInvalidObjectType]
  ELSE IF ~hashRegex(objectHash)
  THEN [id |-> NilId, err |-> ErrInvalidObjectHash]
  ELSE [id |-> Ptr([Scheme     |-> Scheme,
                    Version    |-> SchemeVersion,
                    ObjectType |-> objectType,
                    ObjectHash |-> objectHash,
                    Qualifiers |-> IF qualifiers.nil THEN EmptyMap ELSE qualifiers]),
        err |-> NoErr]

\* encodeQualifierValue with the two replacements in the other order.
encodeQualifierValue_semicolonFirst(value) ==
  ReplaceAll(ReplaceAll(value, B(<<";">>), B(<<"%", "3", "B">>)),
             B(<<"%">>), B(<<"%", "2", "5">>))

encodeQualifierValue(value) ==
  ReplaceAll(ReplaceAll(value, B(<<"%">>), B(<<"%", "2", "5">>)),
             B(<<";">>), B(<<"%", "3", "B">>))

decodeQualifierValue(value) ==
  LET r == QueryUnescape(value)
  IN  IF r.err THEN value ELSE r.decoded

\* The qualifier loop keeping the first value of a repeated key.
RECURSIVE parseQualifiers_firstWins(_, _)
parseQualifiers_firstWins(qualifierParts, qualifiers) ==
  IF qualifierParts = <<>> THEN qualifiers
  ELSE LET part == Head(qualifierParts)
           idx  == Index(part, B(<<"=">>))
       IN  IF part = <<>> THEN parseQualifiers_firstWins(Tail(qualifierParts), qualifiers)
           ELSE IF idx = 0 THEN parseQualifiers_firstWins(Tail(qualifierParts), qualifiers)
           ELSE IF Take(part, idx - 1) \in DOMAIN qualifiers.kv
           THEN parseQualifiers_firstWins(Tail(qualifierParts), qualifiers)
           ELSE parseQualifiers_firstWins(Tail(qualifierParts),
                                MapSet(qualifiers, Take(part, idx - 1),
                                       decodeQualifierValue(Drop(part, idx))))

\* The qualifier loop of Parse: the map built from the qualifier segments.
RECURSIVE parseQualifiers(_, _)
parseQualifiers(qualifierParts, qualifiers) ==
  IF qualifierParts = <<>> THEN qualifiers
  ELSE LET part == Head(qualifierParts)
           idx  == Index(part, B(<<"=">>))
       IN  IF part = <<>> THEN parseQualifiers(Tail(qualifierParts), qualifiers)
           ELSE IF idx = 0 THEN parseQualifiers(Tail(qualifierParts), qualifiers)
           ELSE parseQualifiers(Tail(qualifierParts),
                                MapSet(qualifiers, Take(part, idx - 1),
                                       decodeQualifierValue(Drop(part, idx))))

\* Parse with the version checked before the scheme.
Parse_versionFirst(swhidString) ==
  IF swhidString = <<>> THEN [id |-> NilId, err |-> ErrEmptySWHID]
  ELSE
    LET parts          == Split(swhidString, B(<<";">>))
        corePart       == parts[1]
        qualifierParts == Tail(parts)
        coreParts      == Split(corePart, B(<<":">>))
    IN  IF Len(coreParts) # 4 THEN [id |-> NilId, err |-> ErrInvalidFormat]
        ELSE IF coreParts[2] # B(<<"1">>) THEN [id |-> NilId, err |-> ErrInvalidVersion]
        ELSE IF coreParts[1] # Scheme THEN [id |-> NilId, err |-> ErrInvalidScheme]
        ELSE IF coreParts[3] \notin validObjectTypes
        THEN [id |-> NilId, err |-> ErrInvalidObjectType]
        ELSE IF ~hashRegex(coreParts[4])
        THEN [id |-> NilId, err |-> ErrInvalidObjectHash]
        ELSE [id |-> Ptr([Scheme     |-> Scheme,
                          Version    |-> SchemeVersion,
                          ObjectType |-> coreParts[3],
                          ObjectHash |-> coreParts[4],
                          Qualifiers |-> parseQualifiers(qualifierParts, EmptyMap)]),
              err |-> NoErr]

Parse(swhidString) ==
  IF swhidString = <<>> THEN [id |-> NilId, err |-> ErrEmptySWHID]
  ELSE
    LET parts          == Split(swhidString, B(<<";">>))
        corePart       == parts[1]
        qualifierParts == Tail(parts)
        coreParts      == Split(corePart, B(<<":">>))
    IN  IF Len(coreParts) # 4 THEN [id |-> NilId, err |-> ErrInvalidFormat]
        ELSE IF coreParts[1] # Scheme THEN [id |-> NilId, err |-> ErrInvalidScheme]
        ELSE IF coreParts[2] # B(<<"1">>) THEN [id |-> NilId, err |-> ErrInvalidVersion]
        ELSE IF coreParts[3] \notin validObjectTypes
        THEN [id |-> NilId, err |-> ErrInvalidObjectType]
        ELSE IF ~hashRegex(coreParts[4])
        THEN [id |-> NilId, err |-> ErrInvalidObjectHash]
        ELSE [id |-> Ptr([Scheme     |-> Scheme,
                          Version    |-> SchemeVersion,
                          ObjectType |-> coreParts[3],
                          ObjectHash |-> coreParts[4],
                          Qualifiers |-> parseQualifiers(qualifierParts, EmptyMap)]),
              err |-> NoErr]

\* id.CoreSWHID(): fmt.Sprintf("%s:%d:%s:%s", ...).
CoreSWHID(id) ==
  id.Scheme \o B(<<":">>) \o Itoa(id.Version) \o B(<<":">>) \o id.ObjectType
    \o B(<<":">>) \o id.ObjectHash

\* formatQualifiers with the non-canonical keys emitted first.
formatQualifiers_restFirst(quals, iter) ==
  LET canon == SelectSeq(canonicalQualifierOrder, LAMBDA k : k \in DOMAIN quals.kv)
      rest  == SelectSeq(iter, LAMBDA k : k \notin SeqRange(canonicalQualifierOrder))
      keys  == rest \o canon
      parts == [i \in 1..Len(keys) |->
                  keys[i] \o B(<<"=">>) \o encodeQualifierValue(quals.kv[keys[i]])]
  IN  Join(parts, B(<<";">>))

\* formatQualifiers(quals); iter is the order in which the runtime's range
\* over the map yields the keys.
formatQualifiers(quals, iter) ==
  LET canon == SelectSeq(canonicalQualifierOrder, LAMBDA k : k \in DOMAIN quals.kv)
      rest  == SelectSeq(iter, LAMBDA k : k \notin SeqRange(canonicalQualifierOrder))
      keys  == canon \o rest
      parts == [i \in 1..Len(keys) |->
                  keys[i] \o B(<<"=">>) \o encodeQualifierValue(quals.kv[keys[i]])]
  IN  Join(parts, B(<<";">>))

\* id.String(), with the iteration order of the qualifier map.
String(id, iter) ==
  IF MapLen(id.Qualifiers) = 0 THEN CoreSWHID(id)
  ELSE CoreSWHID(id) \o B(<<";">>) \o formatQualifiers(id.Qualifiers, iter)

\* id.Equal(other) for a non-nil receiver id; other is a *Identifier.
Equal(id, other) ==
  IF other = NilId THEN FALSE
  ELSE IF CoreSWHID(id) # CoreSWHID(other[1]) THEN FALSE
  ELSE IF MapLen(id.Qualifiers) # MapLen(other[1].Qualifiers) THEN FALSE
  ELSE \A k \in DOMAIN id.Qualifiers.kv :
          MapGet(other[1].Qualifiers, k) = id.Qualifiers.kv[k]

\* id.Equal(other) on pointers: with a nil receiver id the method returns
\* false at its first test when other is nil too, and otherwise panics with a
\* nil pointer dereference at id.CoreSWHID(), which reads id.Scheme.
EqualPanics(id, other) == id = NilId /\ other # NilId

\* WithQualifiers that leaves the version of the new identifier unset.
WithQualifiers_zeroVersion(id, qualifiers) ==
  Ptr([Scheme     |-> id.Scheme,
       Version    |-> 0,
       ObjectType |-> id.ObjectType,
       ObjectHash |-> id.ObjectHash,
       Qualifiers |-> qualifiers])

\* WithQualifiers that adds the given qualifiers to those of id.
WithQualifiers_merged(id, qualifiers) ==
  Ptr([Scheme     |-> id.Scheme,
       Version    |-> id.Version,
       ObjectType |-> id.ObjectType,
       ObjectHash |-> id.ObjectHash,
       Qualifiers |-> MakeMap([k \in DOMAIN id.Qualifiers.kv \cup DOMAIN qualifiers.kv |->
                                 IF k \in DOMAIN qualifiers.kv THEN qualifiers.kv[k]
                                 ELSE id.Qualifiers.kv[k]])])

WithQualifiers(id, qualifiers) ==
  Ptr([Scheme     |-> id.Scheme,
       Version    |-> id.Version,
       ObjectType |-> id.ObjectType,
       ObjectHash |-> id.ObjectHash,
       Qualifiers |-> qualifiers])

(***************************************************************************)
(* Inputs of the calls                                                      *)
(***************************************************************************)
\* Most segments after the core in a parsed string.
MaxSegs == 2
\* Longest qualifier value enumerated byte by byte.
MaxValLen == 3
\* Most entries of an enumerated qualifier map.
MaxQuals == 3

SeqsUpTo(S, n) == UNION {[1..k -> S] : k \in 0..n}

HashA ==
  B(<<"9", "4", "a", "9", "e", "d", "0", "2", "4", "d", "3", "8", "5", "9", "7", "9", "3", "6", "1", "8",
      "1", "5", "2", "e", "a", "5", "5", "9", "a", "1", "6", "8", "b", "b", "c", "b", "b", "5", "e", "2">>)
HashZero == Rep(B(<<"0">>), 40)

\* Hashes: two valid ones, then too short, too long, a non-hex byte, an
\* upper-case digit, a trailing newline, and the empty string.
HashInputs ==
  {HashA, HashZero, Take(HashA, 39), HashA \o B(<<"0">>), Take(HashA, 39) \o B(<<"z">>),
   Take(HashA, 39) \o B(<<"A">>), HashA \o <<10>>, <<>>}

TypeInputs ==
  validObjectTypes \cup {B(<<"f", "o", "o">>), B(<<"C", "N", "T">>), <<>>}

KeyX == B(<<"x">>)
KeyY == B(<<"y">>)
ValV == B(<<"v">>)

QualifierKeys == SeqRange(canonicalQualifierOrder) \cup {KeyX, KeyY}

\* The qualifier values enumerated byte by byte: the bytes the codec treats
\* specially, the digits of the escape %25, and a byte that is no hex digit.
ValBytes == {Ord[c] : c \in {"%", ";", "+", "2", "5", "g"}}
Vals == SeqsUpTo(ValBytes, MaxValLen)

\* Maps of at most MaxQuals entries over the canonical keys and two others.
QualMaps ==
  {MakeMap(f) : f \in UNION {[K -> {<<>>, ValV}] :
                    K \in {K \in SUBSET QualifierKeys : Cardinality(K) <= MaxQuals}}}

OneQual(k, v) == MakeMap([x \in {k} |-> v])

NewInputs ==
  (TypeInputs \X HashInputs \X {NilMap, EmptyMap, OneQual(canonicalQualifierOrder[1], ValV)})
    \cup ({ObjectTypeContent} \X {HashA} \X QualMaps)
    \cup ({ObjectTypeSnapshot} \X {HashZero}
            \X {OneQual(canonicalQualifierOrder[4], v) : v \in Vals})

CoreA == Scheme \o B(<<":", "1", ":">>) \o ObjectTypeContent \o B(<<":">>) \o HashA

\* Cores of three, four and five fields, each field right or wrong.
CoreInputs ==
  LET schemes  == {Scheme, B(<<"s", "w", "x">>), <<>>}
      versions == {B(<<"1">>), B(<<"2">>), B(<<"0", "1">>), <<>>}
      types    == {ObjectTypeContent, ObjectTypeRelease, B(<<"f", "o", "o">>), <<>>}
      hashes   == {HashA, HashZero, Take(HashA, 39), Take(HashA, 39) \o B(<<"z">>),
                   Take(HashA, 39) \o B(<<"A">>)}
      four     == {Join(<<f[1], f[2], f[3], f[4]>>, B(<<":">>)) :
                     f \in schemes \X versions \X types \X hashes}
      three    == {Join(<<f[1], f[2], f[3]>>, B(<<":">>)) :
                     f \in schemes \X versions \X types}
      five     == {c \o B(<<":", "1">>) : c \in four}
  IN  four \cup three \cup five \cup {<<>>, B(<<":">>), Scheme}

\* Qualifier segments: empty, without '=', with several '=', with ':', with
\* an empty key, with an empty value, and repeated keys.
SegInputs ==
  { <<>>,
    B(<<"n", "o", "e", "q">>),
    canonicalQualifierOrder[1] \o B(<<"=", "v">>),
    canonicalQualifierOrder[1] \o B(<<"=", "h", "t", "t", "p", "s", ":", "/", "/", "e", ".", "c", "o", "m">>),
    canonicalQualifierOrder[2] \o B(<<"=", "1">>),
    canonicalQualifierOrder[4] \o B(<<"=", "/", "a", "=", "b">>),
    canonicalQualifierOrder[4] \o B(<<"=">>),
    B(<<"x", "=", "1">>),
    B(<<"x", "=", "2", "+", "2">>),
    B(<<"y", "=", "%", "3", "B">>),
    B(<<"=", "v">>) }

Tails(segs, n) ==
  {Concat([i \in DOMAIN t |-> B(<<";">>) \o t[i]]) : t \in SeqsUpTo(segs, n)}

ParseInputs ==
  {c \o t : c \in CoreInputs, t \in {<<>>, B(<<";">>), B(<<";", ":", "=", ":">>)}}
    \cup {CoreA \o t : t \in Tails(SegInputs, MaxSegs)}
    \cup {CoreA \o B(<<";">>) \o canonicalQualifierOrder[4] \o B(<<"=">>) \o v : v \in Vals}

\* The identifiers compared by Equal: two cores, maps over two keys whose
\* values may be the empty string.
EqualQuals ==
  {MakeMap(f) : f \in UNION {[K -> {<<>>, ValV}] : K \in SUBSET {KeyX, KeyY}}}

EqualNewInputs ==
  {ObjectTypeContent} \X {HashA, HashZero} \X (EqualQuals \cup {NilMap})

\* What one client passes to its calls: the string it parses, the arguments
\* of its NewIdentifier calls for a and for b, and the map it passes to
\* WithQualifiers; each is a sequence of length 0 (call not made) or 1.
ParseClients ==
  {[swhidString |-> <<s>>, newA |-> <<>>, newB |-> <<>>, withQ |-> <<>>] : s \in ParseInputs}

NewClients ==
  {[swhidString |-> <<>>, newA |-> <<t>>, newB |-> <<>>, withQ |-> <<>>] : t \in NewInputs}

EqualClients ==
  {[swhidString |-> <<>>, newA |-> <<x>>, newB |-> <<y>>, withQ |-> w] :
     x \in EqualNewInputs, y \in EqualNewInputs, w \in {<<>>, <<NilMap>>}}

\* Clients that make an identifier and replace its qualifiers.
WithClients ==
  {[swhidString |-> <<>>, newA |-> <<x>>, newB |-> <<>>, withQ |-> <<m>>] :
     x \in EqualNewInputs, m \in EqualQuals \cup {NilMap}}

(***************************************************************************)
(* The calls a client makes.  a and b are the client's two *Identifier      *)
(* variables, call is the last call with its arguments and results, and     *)
(* src is the string a was parsed from (empty tuple when it was not).       *)
(***************************************************************************)
Init ==
  /\ input \in ParseClients \cup NewClients \cup EqualClients \cup WithClients
  /\ a = NilId
  /\ b = NilId
  /\ src = <<>>
  /\ call = [op |-> "none"]

Slot(name) == IF name = "a" THEN a ELSE b

\* dst, err := NewIdentifier(objectType, objectHash, qualifiers)
NewIdentifierCall(dst) ==
  LET args == IF dst = "a" THEN input.newA ELSE input.newB
  IN  /\ args # <<>>
      /\ LET in == args[1]
             r  == NewIdentifier(in[1], in[2], in[3])
         IN  /\ IF dst = "a" THEN a' = r.id /\ b' = b ELSE b' = r.id /\ a' = a
             /\ src' = IF dst = "a" THEN <<>> ELSE src
             /\ call' = [op |-> "NewIdentifier", dst |-> dst, objectType |-> in[1],
                         objectHash |-> in[2], qualifiers |-> in[3],
                         id |-> r.id, err |-> r.err]
      /\ UNCHANGED input

\* a, err := Parse(swhidString)
ParseCall ==
  /\ input.swhidString # <<>>
  /\ LET swhidString == input.swhidString[1]
         r == Parse(swhidString)
     IN  /\ a' = r.id
         /\ src' = IF r.err = NoErr THEN <<swhidString>> ELSE <<>>
         /\ call' = [op |-> "Parse", swhidString |-> swhidString, id |-> r.id, err |-> r.err]
  /\ UNCHANGED <<input, b>>

\* out := a.String(); prev is the result of the call before when that was a
\* String() of the same identifier.
StringCall ==
  /\ a # NilId
  /\ \E iter \in RangeOrders(a[1].Qualifiers) :
       call' = [op |-> "String", id |-> a, out |-> String(a[1], iter),
                prev |-> IF call.op = "String" THEN <<call.out>> ELSE <<>>]
  /\ UNCHANGED <<input, a, b, src>>

\* parsed, err := Parse(out), out being the string a.String() has just
\* returned.
ParseOutputCall ==
  /\ call.op = "String"
  /\ call' = [op |-> "ParseOutput", from |-> call.id, swhidString |-> call.out,
              id |-> Parse(call.out).id, err |-> Parse(call.out).err]
  /\ UNCHANGED <<input, a, b, src>>

\* a = a.WithQualifiers(qualifiers); id is the receiver before the call and
\* after is the receiver after it: the method writes no field of it.
WithQualifiersCall ==
  /\ a # NilId
  /\ input.withQ # <<>>
  /\ LET qualifiers == input.withQ[1]
     IN  /\ a' = WithQualifiers(a[1], qualifiers)
         /\ call' = [op |-> "WithQualifiers", id |-> a, qualifiers |-> qualifiers,
                     ret |-> WithQualifiers(a[1], qualifiers), after |-> a]
  /\ src' = <<>>
  /\ UNCHANGED <<input, b>>

\* val := recv.Equal(arg), recv and arg each one of the client's variables,
\* nil or not.  panic tells that the call ended in a run-time panic, and then
\* there is no val (FALSE stands in its place).
EqualCall ==
  /\ input.newB # <<>>
  /\ \E recv \in {"a", "b"}, arg \in {"a", "b"} :
       call' = [op |-> "Equal", recv |-> recv, arg |-> arg, id |-> Slot(recv),
                other |-> Slot(arg), panic |-> EqualPanics(Slot(recv), Slot(arg)),
                val |-> IF Slot(recv) = NilId THEN FALSE
                        ELSE Equal(Slot(recv)[1], Slot(arg))]
  /\ UNCHANGED <<input, a, b, src>>

Next ==
  \/ NewIdentifierCall("a")
  \/ NewIdentifierCall("b")
  \/ ParseCall
  \/ StringCall
  \/ ParseOutputCall
  \/ WithQualifiersCall
  \/ EqualCall

Spec == Init /\ [][Next]_vars

(***************************************************************************)
(* Reference definitions the properties are stated with: strings are cut    *)
(* by the positions of a separator byte, and escapes are read byte by byte. *)
(***************************************************************************)
Positions(s, c) == {i \in 1..Len(s) : s[i] = c}

\* The k-th smallest element of the set of integers P.
Kth(P, k) == CHOOSE p \in P : Cardinality({q \in P : q < p}) = k - 1

\* The pieces of s between the occurrences of the byte c.
Pieces(s, c) ==
  LET P == Positions(s, c)
      n == Cardinality(P)
      lo(k) == IF k = 1 THEN 1 ELSE Kth(P, k - 1) + 1
      hi(k) == IF k = n + 1 THEN Len(s) ELSE Kth(P, k) - 1
  IN  [k \in 1..(n + 1) |-> SubSeq(s, lo(k), hi(k))]

Semicolon == Ord[";"]
Colon     == Ord[":"]
EqualSign == Ord["="]
Percent   == Ord["%"]

\* The text before the first ';', and the segments after it.
CorePartOf(s) == Pieces(s, Semicolon)[1]
SegmentsOf(s) == Tail(Pieces(s, Semicolon))

SegHasKey(seg)  == Positions(seg, EqualSign) # {}
SegKey(seg)     == Take(seg, Kth(Positions(seg, EqualSign), 1) - 1)
SegRawValue(seg) == Drop(seg, Kth(Positions(seg, EqualSign), 1))

FiveCodes ==
  {B(<<"c", "n", "t">>), B(<<"d", "i", "r">>), B(<<"r", "e", "v">>),
   B(<<"r", "e", "l">>), B(<<"s", "n", "p">>)}

LowerHexBytes ==
  {Ord[c] : c \in {"0", "1", "2", "3", "4", "5", "6", "7", "8", "9",
                   "a", "b", "c", "d", "e", "f"}}

IsLowerHex40(h) == Len(h) = 40 /\ \A i \in DOMAIN h : h[i] \in LowerHexBytes

\* The error the six checks of a parse give, in their order.
ExpectedParseErr(s) ==
  LET f == Pieces(CorePartOf(s), Colon)
  IN  IF Len(s) = 0 THEN ErrEmptySWHID
      ELSE IF Len(f) # 4 THEN ErrInvalidFormat
      ELSE IF f[1] # B(<<"s", "w", "h">>) THEN ErrInvalidScheme
      ELSE IF f[2] # B(<<"1">>) THEN ErrInvalidVersion
      ELSE IF f[3] \notin FiveCodes THEN ErrInvalidObjectType
      ELSE IF ~IsLowerHex40(f[4]) THEN ErrInvalidObjectHash
      ELSE NoErr

\* The number of the six checks that the string s fails.
FailedChecks(s) ==
  LET f == Pieces(CorePartOf(s), Colon)
  IN  IF Len(s) = 0 \/ Len(f) # 4 THEN 1
      ELSE Cardinality({k \in 1..4 :
             \/ k = 1 /\ f[1] # B(<<"s", "w", "h">>)
             \/ k = 2 /\ f[2] # B(<<"1">>)
             \/ k = 3 /\ f[3] \notin FiveCodes
             \/ k = 4 /\ ~IsLowerHex40(f[4])})

(***************************************************************************)
(* C6                                                                       *)
(***************************************************************************)
\* C6: NewIdentifier(t, h, q) returns nil and the invalid-object-type error
\* when t is none of the five codes; otherwise nil and the invalid-hash error
\* when h is not 40 lower-case hex digits; otherwise an identifier with
\* scheme swh, version 1, type t, hash h, and a nil q replaced by an empty map.
C6_NewIdentifierValidates ==
  call.op = "NewIdentifier" =>
    IF call.objectType \notin FiveCodes
    THEN call.id = NilId /\ call.err = ErrInvalidObjectType
    ELSE IF ~IsLowerHex40(call.objectHash)
    THEN call.id = NilId /\ call.err = ErrInvalidObjectHash
    ELSE /\ call.err = NoErr
         /\ call.id # NilId
         /\ call.id[1].Scheme = B(<<"s", "w", "h">>)
         /\ call.id[1].Version = 1
         /\ call.id[1].ObjectType = call.objectType
         /\ call.id[1].ObjectHash = call.objectHash
         /\ ~call.id[1].Qualifiers.nil
         /\ IF call.qualifiers.nil
            THEN DOMAIN call.id[1].Qualifiers.kv = {}
            ELSE call.id[1].Qualifiers = call.qualifiers

\* A call with a wrong type and a wrong hash at once was rejected.
C6_Witness ==
  /\ call.op = "NewIdentifier"
  /\ call.objectType \notin FiveCodes
  /\ ~IsLowerHex40(call.objectHash)
  /\ call.id = NilId

(***************************************************************************)
(* C7                                                                       *)
(***************************************************************************)
\* C7: Parse(s) fails with the error of the first failing check, in the
\* order empty input, field count of the core, scheme, version, object type,
\* hash; it succeeds exactly when all six pass, and a failure returns nil.
C7_ParseFirstFailingCheck ==
  call.op = "Parse" =>
    /\ call.err = ExpectedParseErr(call.swhidString)
    /\ (call.err # NoErr) <=> (call.id = NilId)
    /\ call.err = NoErr =>
         LET f == Pieces(CorePartOf(call.swhidString), Colon)
         IN  /\ call.id[1].ObjectType = f[3]
             /\ call.id[1].ObjectHash = f[4]

\* A string failing several checks at once was parsed and rejected.
C7_Witness ==
  /\ call.op = "Parse"
  /\ FailedChecks(call.swhidString) >= 3
  /\ call.err = ErrInvalidScheme
  /\ call.id = NilId

(***************************************************************************)
(* C5                                                                       *)
(***************************************************************************)
\* The place of a key in the rendering: 1..6 for origin, visit, anchor, path,
\* lines, bytes, and 7 for every other key.
Rank(k) ==
  IF k \in SeqRange(canonicalQualifierOrder)
  THEN CHOOSE i \in DOMAIN canonicalQualifierOrder : canonicalQualifierOrder[i] = k
  ELSE 7

CoreText(id) ==
  B(<<"s", "w", "h", ":", "1", ":">>) \o id.ObjectType \o B(<<":">>) \o id.ObjectHash

\* C5: String() is the core swh:1:<type>:<hash> alone when there is no
\* qualifier (no trailing ';'); otherwise the core, ';', and one
\* key=escapedValue item per qualifier joined by ';', the keys origin, visit,
\* anchor, path, lines, bytes first and in that order, every other key after.
C5_StringCanonicalOrder ==
  call.op = "String" =>
    LET id   == call.id[1]
        q    == id.Qualifiers.kv
        Item(k) == k \o B(<<"=">>) \o encodeQualifierValue(q[k])
    IN  IF DOMAIN q = {}
        THEN call.out = CoreText(id)
        ELSE \E ord \in Perms(DOMAIN q) :
               /\ \A i, j \in DOMAIN ord : i < j => Rank(ord[i]) <= Rank(ord[j])
               /\ call.out = CoreText(id) \o B(<<";">>)
                               \o Join([i \in DOMAIN ord |-> Item(ord[i])], B(<<";">>))

\* An identifier with two canonical keys and another key was rendered.
C5_Witness ==
  /\ call.op = "String"
  /\ Cardinality({k \in DOMAIN call.id[1].Qualifiers.kv : Rank(k) < 7}) >= 2
  /\ \E k \in DOMAIN call.id[1].Qualifiers.kv : Rank(k) = 7

(***************************************************************************)
(* C8                                                                       *)
(***************************************************************************)
Max(S) == CHOOSE x \in S : \A y \in S : y <= x

IsValidCore(c) == c # <<>> /\ ExpectedParseErr(c) = NoErr

\* C8: in Parse the qualifier segments never cause an error and never change
\* the field count of the core; a segment that is empty or has no '=' is
\* skipped, a segment is split at its first '=' only, and a key that occurs
\* in several segments has one entry, with the value of the last of them.
C8_QualifierSegments ==
  call.op = "Parse" =>
    LET s     == call.swhidString
        segs  == SegmentsOf(s)
        keyed == {i \in DOMAIN segs : SegHasKey(segs[i])}
    IN  /\ IsValidCore(CorePartOf(s)) => call.err = NoErr
        /\ Len(Pieces(CorePartOf(s), Colon)) = 4 => call.err # ErrInvalidFormat
        /\ call.err = NoErr =>
             LET kv == call.id[1].Qualifiers.kv
             IN  /\ DOMAIN kv = {SegKey(segs[i]) : i \in keyed}
                 /\ \A k \in DOMAIN kv :
                      LET last == Max({i \in keyed : SegKey(segs[i]) = k})
                      IN  kv[k] = decodeQualifierValue(SegRawValue(segs[last]))

\* A string with one key in two segments of different values was parsed.
C8_Witness ==
  /\ call.op = "Parse"
  /\ call.err = NoErr
  /\ LET segs == SegmentsOf(call.swhidString)
     IN  \E i, j \in DOMAIN segs :
           /\ i < j
           /\ SegHasKey(segs[i]) /\ SegHasKey(segs[j])
           /\ SegKey(segs[i]) = SegKey(segs[j])
           /\ SegRawValue(segs[i]) # SegRawValue(segs[j])

(***************************************************************************)
(* C10                                                                      *)
(***************************************************************************)
\* The escaping read byte by byte: '%' gives %25, ';' gives %3B, every other
\* byte gives itself.
EscapedByByte(v) ==
  Concat([i \in DOMAIN v |->
            IF v[i] = Percent THEN B(<<"%", "2", "5">>)
            ELSE IF v[i] = Semicolon THEN B(<<"%", "3", "B">>)
            ELSE <<v[i]>>])

\* C10: in the rendered string every '%' of a qualifier value is %25 and
\* every ';' is %3B (never %253B), every other byte is unchanged, and the
\* escaped values hold no raw ';' (the only ';' are the item separators).
C10_EscapePercentThenSemicolon ==
  call.op = "String" =>
    LET id == call.id[1]
        q  == id.Qualifiers.kv
        Item(k) == k \o B(<<"=">>) \o EscapedByByte(q[k])
    IN  /\ Cardinality(Positions(call.out, Semicolon)) = Cardinality(DOMAIN q)
        /\ DOMAIN q # {} =>
             \E ord \in Perms(DOMAIN q) :
               call.out = CoreText(id) \o B(<<";">>)
                            \o Join([i \in DOMAIN ord |-> Item(ord[i])], B(<<";">>))

\* A value holding a '%' and a ';' was rendered.
C10_Witness ==
  /\ call.op = "String"
  /\ \E k \in DOMAIN call.id[1].Qualifiers.kv :
       /\ Positions(call.id[1].Qualifiers.kv[k], Percent) # {}
       /\ Positions(call.id[1].Qualifiers.kv[k], Semicolon) # {}

(***************************************************************************)
(* C9                                                                       *)
(***************************************************************************)
IsHexByte(c) == c \in LowerHexBytes \cup {Ord[x] : x \in {"A", "B", "C", "D", "E", "F"}}

HexValue(c) ==
  IF c >= Ord["0"] /\ c <= Ord["9"] THEN c - Ord["0"]
  ELSE IF c >= Ord["a"] /\ c <= Ord["f"] THEN 10 + c - Ord["a"]
  ELSE 10 + c - Ord["A"]

\* Reading v from byte i on: some '%' is not followed by two hex digits.
RECURSIVE PctMalformed(_, _)
PctMalformed(v, i) ==
  IF i > Len(v) THEN FALSE
  ELSE IF v[i] # Percent THEN PctMalformed(v, i + 1)
  ELSE IF i + 2 <= Len(v) /\ IsHexByte(v[i + 1]) /\ IsHexByte(v[i + 2])
       THEN PctMalformed(v, i + 3)
       ELSE TRUE

\* Percent-decoding of a well-formed v: %XX is the byte XX, every byte that is
\* not part of an escape is itself.
RECURSIVE PctDecoded(_, _)
PctDecoded(v, i) ==
  IF i > Len(v) THEN <<>>
  ELSE IF v[i] = Percent
       THEN <<16 * HexValue(v[i + 1]) + HexValue(v[i + 2])>> \o PctDecoded(v, i + 3)
       ELSE <<v[i]>> \o PctDecoded(v, i + 1)

\* The raw value of the last segment of s whose key is k.
LastRawValue(s, k) ==
  LET segs == SegmentsOf(s)
      last == Max({i \in DOMAIN segs : SegHasKey(segs[i]) /\ SegKey(segs[i]) = k})
  IN  SegRawValue(segs[last])

\* C9: in Parse each qualifier value is percent-decoded; when a '%' is not
\* followed by two hex digits the stored value is the whole raw value; bytes
\* that are not part of a percent escape are stored unchanged.
C9_PercentDecodedOrRaw ==
  (call.op = "Parse" /\ call.err = NoErr) =>
    \A k \in DOMAIN call.id[1].Qualifiers.kv :
      LET raw == LastRawValue(call.swhidString, k)
      IN  call.id[1].Qualifiers.kv[k] =
            IF PctMalformed(raw, 1) THEN raw ELSE PctDecoded(raw, 1)

(***************************************************************************)
(* C1                                                                       *)
(***************************************************************************)
\* Every '%' of v starts one of the two escapes the formatter writes.
OnlyFormatterEscapes(v) ==
  \A i \in Positions(v, Percent) :
    /\ i + 2 <= Len(v)
    /\ SubSeq(v, i + 1, i + 2) \in {B(<<"2", "5">>), B(<<"3", "B">>)}

\* The qualifiers of s are in canonical form: every segment is key=value, no
\* key is repeated, the six canonical keys come first and in their order, at
\* most one other key follows, and the values use the formatter's escapes.
CanonicalQualifiers(s) ==
  LET segs == SegmentsOf(s)
  IN  /\ \A i \in DOMAIN segs : SegHasKey(segs[i])
      /\ \A i, j \in DOMAIN segs :
           i < j => /\ SegKey(segs[i]) # SegKey(segs[j])
                    /\ Rank(SegKey(segs[i])) <= Rank(SegKey(segs[j]))
      /\ Cardinality({i \in DOMAIN segs : Rank(SegKey(segs[i])) = 7}) <= 1
      /\ \A i \in DOMAIN segs : OnlyFormatterEscapes(SegRawValue(segs[i]))

\* C1: round trip: for a string s that Parse accepts and whose qualifiers are
\* in canonical order and use only the escaped character set,
\* Parse(s).String() is s.
C1_RoundTrip ==
  (call.op = "String" /\ src # <<>> /\ CanonicalQualifiers(src[1])) =>
    call.out = src[1]

(***************************************************************************)
(* C4                                                                       *)
(***************************************************************************)
\* C4: String() is a function of the identifier's value: two calls on the
\* same identifier return the same string, also with two or more keys
\* outside the canonical six.
C4_StringDeterministic ==
  (call.op = "String" /\ call.prev # <<>>) => call.out = call.prev[1]

(***************************************************************************)
(* C2, C3                                                                   *)
(***************************************************************************)
Pairs(m) == {<<k, m.kv[k]>> : k \in DOMAIN m.kv}

\* C2: for non-nil a and b, a.Equal(b) is true exactly when the core strings
\* are equal and the qualifier maps hold the same set of (key, value) pairs;
\* it is false when one map has a key the other lacks, also when that key's
\* value is the empty string.
C2_EqualIffSamePairs ==
  (call.op = "Equal" /\ call.id # NilId /\ call.other # NilId) =>
    (call.val <=> /\ CoreText(call.id[1]) = CoreText(call.other[1])
                  /\ Pairs(call.id[1].Qualifiers) = Pairs(call.other[1].Qualifiers))

\* C3: Equal is reflexive and symmetric: a.Equal(a) is true, and a.Equal(b)
\* is b.Equal(a), for all non-nil a and b, also with empty-string values.
C3_EqualReflexiveSymmetric ==
  (call.op = "Equal" /\ call.id # NilId /\ call.other # NilId) =>
    /\ call.recv = call.arg => call.val
    /\ Equal(call.id[1], call.id)
    /\ call.val = Equal(call.other[1], call.id)

(***************************************************************************)
(* crypto/sha1 and encoding/hex, which the Compute*Hash functions call.     *)
(* A 32-bit word is a pair <<high 16 bits, low 16 bits>>.                   *)
(***************************************************************************)
\* The exclusive or and the conjunction of two 4-bit numbers a and b, at
\* [a + 1][b + 1].
XorNibble ==
  <<
     <<0, 1, 2, 3, 4, 5, 6, 7, 8, 9, 10, 11, 12, 13, 14, 15>>,
     <<1, 0, 3, 2, 5, 4, 7, 6, 9, 8, 11, 10, 13, 12, 15, 14>>,
     <<2, 3, 0, 1, 6, 7, 4, 5, 10, 11, 8, 9, 14, 15, 12, 13>>,
     <<3, 2, 1, 0, 7, 6, 5, 4, 11, 10, 9, 8, 15, 14, 13, 12>>,
     <<4, 5, 6, 7, 0, 1, 2, 3, 12, 13, 14, 15, 8, 9, 10, 11>>,
     <<5, 4, 7, 6, 1, 0, 3, 2, 13, 12, 15, 14, 9, 8, 11, 10>>,
     <<6, 7, 4, 5, 2, 3, 0, 1, 14, 15, 12, 13, 10, 11, 8, 9>>,
     <<7, 6, 5, 4, 3, 2, 1, 0, 15, 14, 13, 12, 11, 10, 9, 8>>,
     <<8, 9, 10, 11, 12, 13, 14, 15, 0, 1, 2, 3, 4, 5, 6, 7>>,
     <<9, 8, 11, 10, 13, 12, 15, 14, 1, 0, 3, 2, 5, 4, 7, 6>>,
     <<10, 11, 8, 9, 14, 15, 12, 13, 2, 3, 0, 1, 6, 7, 4, 5>>,
     <<11, 10, 9, 8, 15, 14, 13, 12, 3, 2, 1, 0, 7, 6, 5, 4>>,
     <<12, 13, 14, 15, 8, 9, 10, 11, 4, 5, 6, 7, 0, 1, 2, 3>>,
     <<13, 12, 15, 14, 9, 8, 11, 10, 5, 4, 7, 6, 1, 0, 3, 2>>,
     <<14, 15, 12, 13, 10, 11, 8, 9, 6, 7, 4, 5, 2, 3, 0, 1>>,
     <<15, 14, 13, 12, 11, 10, 9, 8, 7, 6, 5, 4, 3, 2, 1, 0>>
  >>

AndNibble ==
  <<
     <<0, 0, 0, 0, 0, 0, 0, 0, 0, 0, 0, 0, 0, 0, 0, 0>>,
     <<0, 1, 0, 1, 0, 1, 0, 1, 0, 1, 0, 1, 0, 1, 0, 1>>,
     <<0, 0, 2, 2, 0, 0, 2, 2, 0, 0, 2, 2, 0, 0, 2, 2>>,
     <<0, 1, 2, 3, 0, 1, 2, 3, 0, 1, 2, 3, 0, 1, 2, 3>>,
     <<0, 0, 0, 0, 4, 4, 4, 4, 0, 0, 0, 0, 4, 4, 4, 4>>,
     <<0, 1, 0, 1, 4, 5, 4, 5, 0, 1, 0, 1, 4, 5, 4, 5>>,
     <<0, 0, 2, 2, 4, 4, 6, 6, 0, 0, 2, 2, 4, 4, 6, 6>>,
     <<0, 1, 2, 3, 4, 5, 6, 7, 0, 1, 2, 3, 4, 5, 6, 7>>,
     <<0, 0, 0, 0, 0, 0, 0, 0, 8, 8, 8, 8, 8, 8, 8, 8>>,
     <<0, 1, 0, 1, 0, 1, 0, 1, 8, 9, 8, 9, 8, 9, 8, 9>>,
     <<0, 0, 2, 2, 0, 0, 2, 2, 8, 8, 10, 10, 8, 8, 10, 10>>,
     <<0, 1, 2, 3, 0, 1, 2, 3, 8, 9, 10, 11, 8, 9, 10, 11>>,
     <<0, 0, 0, 0, 4, 4, 4, 4, 8, 8, 8, 8, 12, 12, 12, 12>>,
     <<0, 1, 0, 1, 4, 5, 4, 5, 8, 9, 8, 9, 12, 13, 12, 13>>,
     <<0, 0, 2, 2, 4, 4, 6, 6, 8, 8, 10, 10, 12, 12, 14, 14>>,
     <<0, 1, 2, 3, 4, 5, 6, 7, 8, 9, 10, 11, 12, 13, 14, 15>>
  >>

\* The exclusive or and the conjunction of two bytes a and b, at
\* [a * 256 + b + 1], as tuples.
XorByte ==
  [i \in 1..65536 |->
     LET x == (i - 1) \div 256
         y == (i - 1) % 256
     IN  16 * XorNibble[(x \div 16) + 1][(y \div 16) + 1] + XorNibble[(x % 16) + 1][(y % 16) + 1]]
    \o <<>>

AndByte ==
  [i \in 1..65536 |->
     LET x == (i - 1) \div 256
         y == (i - 1) % 256
     IN  16 * AndNibble[(x \div 16) + 1][(y \div 16) + 1] + AndNibble[(x % 16) + 1][(y % 16) + 1]]
    \o <<>>

Xor16(x, y) ==
  256 * XorByte[(x \div 256) * 256 + (y \div 256) + 1] + XorByte[(x % 256) * 256 + (y % 256) + 1]

And16(x, y) ==
  256 * AndByte[(x \div 256) * 256 + (y \div 256) + 1] + AndByte[(x % 256) * 256 + (y % 256) + 1]

WXor(x, y) == <<Xor16(x[1], y[1]), Xor16(x[2], y[2])>>
WAnd(x, y) == <<And16(x[1], y[1]), And16(x[2], y[2])>>
WNot(x)    == <<65535 - x[1], 65535 - x[2]>>
WOr(x, y)  == <<x[1] + y[1] - And16(x[1], y[1]), x[2] + y[2] - And16(x[2], y[2])>>

\* Addition modulo 2^32.
WAdd(x, y) ==
  LET lo == x[2] + y[2]
  IN  <<(x[1] + y[1] + (lo \div 65536)) % 65536, lo % 65536>>

\* The powers of two 2^0 .. 2^16, at [k + 1].
PowersOfTwo ==
  <<1, 2, 4, 8, 16, 32, 64, 128, 256, 512, 1024, 2048, 4096, 8192, 16384, 32768, 65536>>

\* Rotation to the left by n bits, 0 <= n < 32.
WRotl(x, n) ==
  LET hi == IF n >= 16 THEN x[2] ELSE x[1]
      lo == IF n >= 16 THEN x[1] ELSE x[2]
      up == PowersOfTwo[(n % 16) + 1]
      dn == PowersOfTwo[17 - (n % 16)]
  IN  <<((hi * up) % 65536) + (lo \div dn), ((lo * up) % 65536) + (hi \div dn)>>

\* The padded message: the bytes, 0x80, zeros up to 56 modulo 64, and the
\* length in bits as a 64-bit big-endian number.
sha1Pad(msg) ==
  LET n     == Len(msg)
      zeros == (119 - (n % 64)) % 64
      bits  == n * 8
  IN  msg \o <<128>> \o [i \in 1..zeros |-> 0]
          \o <<0, 0, 0, 0, (bits \div 16777216) % 256, (bits \div 65536) % 256,
               (bits \div 256) % 256, bits % 256>>

\* The 16 big-endian words of the 64-byte block that starts after byte off,
\* as a tuple.
sha1BlockWords(p, off) ==
  [i \in 1..16 |-> <<p[off + 4 * i - 3] * 256 + p[off + 4 * i - 2],
                     p[off + 4 * i - 1] * 256 + p[off + 4 * i]>>] \o <<>>

\* The message schedule with its next word appended, and that step 8 times.
sha1Extend(w) ==
  LET t == Len(w) + 1
  IN  Append(w, WRotl(WXor(WXor(w[t - 3], w[t - 8]), WXor(w[t - 14], w[t - 16])), 1))

\* (The tuple has w evaluated before the steps that extend it.)
sha1Extend8(w) ==
  <<w, sha1Extend(sha1Extend(sha1Extend(sha1Extend(
        sha1Extend(sha1Extend(sha1Extend(sha1Extend(w))))))))>>[2]

\* The first n words of the schedule, n being 16 plus a multiple of 8.
RECURSIVE sha1ScheduleTo(_, _)
sha1ScheduleTo(words, n) ==
  IF n = 16 THEN words ELSE sha1Extend8(sha1ScheduleTo(words, n - 8))

\* The schedule of 80 words.
sha1Schedule(words) == sha1ScheduleTo(words, 80)

\* The round functions; the disjunctions are of words with no bit in common.
sha1F(t, x, y, z) ==
  IF t <= 20 THEN WAdd(WAnd(x, y), WAnd(WNot(x), z))
  ELSE IF t <= 40 THEN WXor(WXor(x, y), z)
  ELSE IF t <= 60 THEN WAdd(WAnd(x, y), WAnd(z, WXor(x, y)))
  ELSE WXor(WXor(x, y), z)

sha1K(t) ==
  IF t <= 20 THEN <<23170, 31129>>
  ELSE IF t <= 40 THEN <<28377, 60321>>
  ELSE IF t <= 60 THEN <<36635, 48348>>
  ELSE <<51810, 49622>>

\* One round.  ss lists the working variables <<a, b, c, d, e>> before round
\* 1 and after each round made; the round appends those after round Len(ss).
sha1Round(ss, w) ==
  LET t   == Len(ss)
      st  == ss[t]
      tmp == WAdd(WAdd(WAdd(WRotl(st[1], 5), sha1F(t, st[2], st[3], st[4])),
                       WAdd(st[5], sha1K(t))), w[t])
  IN  Append(ss, <<tmp, st[1], WRotl(st[2], 30), st[3], st[4]>>)

\* Eight rounds.  (The tuple has ss evaluated before the rounds made on it.)
sha1Rounds8(ss, w) ==
  <<ss, sha1Round(sha1Round(sha1Round(sha1Round(
          sha1Round(sha1Round(sha1Round(sha1Round(ss, w), w), w), w), w), w), w), w)>>[2]

\* The working variables before round 1 and after each of the first n
\* rounds, n being a multiple of 8.
RECURSIVE sha1RoundsTo(_, _, _)
sha1RoundsTo(h, w, n) ==
  IF n = 0 THEN <<h>> ELSE sha1Rounds8(sha1RoundsTo(h, w, n - 8), w)

\* (The tuple has the schedule evaluated before the rounds.)
sha1Rounds80(h, w) == <<w, sha1RoundsTo(h, w, 80)>>[2]

\* The sum of the chaining value h and the working variables st, word by word.
sha1AddState(h, st) ==
  <<WAdd(h[1], st[1]), WAdd(h[2], st[2]), WAdd(h[3], st[3]), WAdd(h[4], st[4]),
    WAdd(h[5], st[5])>>

\* The chaining value h after one more block, given by its 16 words: the 80
\* rounds, then the sum with h.
\* (The tuple has h, the outcome of the blocks before, evaluated first.)
sha1Block(h, words) == <<h, sha1AddState(h, sha1Rounds80(h, sha1Schedule(words))[81])>>[2]

\* The chaining value after the first n blocks of p.
RECURSIVE sha1Blocks(_, _)
sha1Blocks(p, n) ==
  IF n = 0
  THEN <<<<26437, 8961>>, <<61389, 43913>>, <<39098, 56574>>, <<4146, 21622>>, <<50130, 57840>>>>
  ELSE sha1Block(sha1Blocks(p, n - 1), sha1BlockWords(p, 64 * (n - 1)))

\* Byte k (0..3, big-endian) of the word wd.
sha1WordByte(wd, k) ==
  IF k = 0 THEN wd[1] \div 256
  ELSE IF k = 1 THEN wd[1] % 256
  ELSE IF k = 2 THEN wd[2] \div 256
  ELSE wd[2] % 256

\* The 20 bytes of the chaining value h.
sha1Bytes(h) == [i \in 1..20 |-> sha1WordByte(h[((i - 1) \div 4) + 1], (i - 1) % 4)] \o <<>>

\* The chaining value after all the blocks of the padded message p.
sha1Digest(p) == sha1Blocks(p, Len(p) \div 64)

\* sha1.New(), Write(msg), Sum(nil): the 20 bytes of the digest.
sha1Sum(msg) == sha1Bytes(sha1Digest(sha1Pad(msg)))

\* The digits with the letters in upper case.
hextable_upperCase ==
  B(<<"0", "1", "2", "3", "4", "5", "6", "7", "8", "9", "A", "B", "C", "D", "E", "F">>)

hextable ==
  B(<<"0", "1", "2", "3", "4", "5", "6", "7", "8", "9", "a", "b", "c", "d", "e", "f">>)

\* hex.EncodeToString(src): two lower-case digits per byte.
RECURSIVE EncodeToString(_)
EncodeToString(bytes) ==
  IF bytes = <<>> THEN <<>>
  ELSE <<hextable[(Head(bytes) \div 16) + 1], hextable[(Head(bytes) % 16) + 1]>>
         \o EncodeToString(Tail(bytes))

\* The value of a hex digit in either case, 255 for any other byte
\* (encoding/hex reverseHexTable).
fromHexChar(c) ==
  IF c >= 48 /\ c <= 57 THEN c - 48
  ELSE IF c >= 97 /\ c <= 102 THEN c - 97 + 10
  ELSE IF c >= 65 /\ c <= 70 THEN c - 65 + 10
  ELSE 255

\* hex.DecodeString(s): the bytes decoded before the first byte that is no hex
\* digit or before a trailing odd digit, and whether an error is returned.
RECURSIVE DecodeString(_)
DecodeString(s) ==
  IF s = <<>> THEN [bytes |-> <<>>, err |-> FALSE]
  ELSE IF Len(s) = 1 THEN [bytes |-> <<>>, err |-> TRUE]
  ELSE IF fromHexChar(s[1]) > 15 \/ fromHexChar(s[2]) > 15
       THEN [bytes |-> <<>>, err |-> TRUE]
       ELSE LET r == DecodeString(Drop(s, 2))
            IN  [bytes |-> <<fromHexChar(s[1]) * 16 + fromHexChar(s[2])>> \o r.bytes,
                 err   |-> r.err]

(***************************************************************************)
(* The object encoders: sorting and the directory encoder                   *)
(***************************************************************************)
\* s < t on Go strings: byte-wise lexicographic order.
RECURSIVE StrLess(_, _)
StrLess(s, t) ==
  IF t = <<>> THEN FALSE
  ELSE IF s = <<>> THEN TRUE
  ELSE IF Head(s) # Head(t) THEN Head(s) < Head(t)
  ELSE StrLess(Tail(s), Tail(t))

\* The orders of the elements of the list l.
PermsOfList(l) == {[i \in 1..Len(l) |-> l[p[i]]] : p \in Perms(1..Len(l))}

\* sort.Slice(l, less) with a less that compares the keys of the elements,
\* key[i] being the key of l[i]: the sort is not stable, so elements of which
\* neither key is less than the other may end up in either order.
sortSlice(l, key) ==
  {[i \in 1..Len(l) |-> l[p[i]]] :
     p \in {q \in Perms(1..Len(l)) :
              \A i, j \in 1..Len(l) : i < j => ~StrLess(key[q[j]], key[q[i]])}}

EntryTypeFile       == 0
EntryTypeExecutable == 1
EntryTypeDirectory  == 2
EntryTypeSymlink    == 3
EntryTypeRevision   == 4

\* The default permissions with those of a directory padded to six digits.
DefaultPerms_paddedDirectory(e) ==
  IF e.Type = EntryTypeDirectory THEN B(<<"0", "4", "0", "0", "0", "0">>)
  ELSE IF e.Type = EntryTypeFile THEN B(<<"1", "0", "0", "6", "4", "4">>)
  ELSE IF e.Type = EntryTypeExecutable THEN B(<<"1", "0", "0", "7", "5", "5">>)
  ELSE IF e.Type = EntryTypeSymlink THEN B(<<"1", "2", "0", "0", "0", "0">>)
  ELSE IF e.Type = EntryTypeRevision THEN B(<<"1", "6", "0", "0", "0", "0">>)
  ELSE B(<<"1", "0", "0", "6", "4", "4">>)

DefaultPerms(e) ==
  IF e.Type = EntryTypeDirectory THEN B(<<"4", "0", "0", "0", "0">>)
  ELSE IF e.Type = EntryTypeFile THEN B(<<"1", "0", "0", "6", "4", "4">>)
  ELSE IF e.Type = EntryTypeExecutable THEN B(<<"1", "0", "0", "7", "5", "5">>)
  ELSE IF e.Type = EntryTypeSymlink THEN B(<<"1", "2", "0", "0", "0", "0">>)
  ELSE IF e.Type = EntryTypeRevision THEN B(<<"1", "6", "0", "0", "0", "0">>)
  ELSE B(<<"1", "0", "0", "6", "4", "4">>)

Permissions(e) == IF e.Perms # <<>> THEN e.Perms ELSE DefaultPerms(e)

\* The bare name as the sort key of every kind.
SortKey_bareName(e) == e.Name

SortKey(e) == IF e.Type = EntryTypeDirectory THEN e.Name \o B(<<"/">>) ELSE e.Name

\* The loop of serializeEntries over the sorted entries.
RECURSIVE appendEntries(_)
appendEntries(sorted) ==
  IF sorted = <<>> THEN <<>>
  ELSE LET entry == Head(sorted)
       IN  Permissions(entry) \o B(<<" ">>) \o entry.Name \o <<0>>
             \o DecodeString(entry.Target).bytes \o appendEntries(Tail(sorted))

\* The byte strings serializeEntries(entries) may return.
serializeEntries(entries) ==
  {appendEntries(sorted) :
     sorted \in sortSlice(entries, [i \in 1..Len(entries) |-> SortKey(entries[i])])}

\* The header without its closing NUL byte.
gitHeader_noNul(label, n) == label \o B(<<" ">>) \o Itoa(n)

\* fmt.Sprintf("<label> %d\x00", n)
gitHeader(label, n) == label \o B(<<" ">>) \o Itoa(n) \o <<0>>

\* What ComputeDirectoryHash writes to the hash for the serialization it got,
\* and the string it returns.
directoryHashed(serialized) == gitHeader(B(<<"t", "r", "e", "e">>), Len(serialized)) \o serialized

ComputeDirectoryHash(serialized) == EncodeToString(sha1Sum(directoryHashed(serialized)))

(***************************************************************************)
(* The snapshot encoder and the content hash                                *)
(***************************************************************************)
BranchTargetContent   == B(<<"c", "o", "n", "t", "e", "n", "t">>)
BranchTargetDirectory == B(<<"d", "i", "r", "e", "c", "t", "o", "r", "y">>)
BranchTargetRevision  == B(<<"r", "e", "v", "i", "s", "i", "o", "n">>)
BranchTargetRelease   == B(<<"r", "e", "l", "e", "a", "s", "e">>)
BranchTargetSnapshot  == B(<<"s", "n", "a", "p", "s", "h", "o", "t">>)
BranchTargetAlias     == B(<<"a", "l", "i", "a", "s">>)
BranchTargetDangling  == B(<<"d", "a", "n", "g", "l", "i", "n", "g">>)

computeTargetIdentifier(branch) ==
  IF branch.TargetType \in {BranchTargetContent, BranchTargetDirectory, BranchTargetRevision,
                            BranchTargetRelease, BranchTargetSnapshot}
  THEN DecodeString(branch.Target).bytes
  ELSE IF branch.TargetType = BranchTargetAlias THEN branch.Target
  ELSE <<>>

\* The branch with no ':' after the length of its target identifier.
serializeBranch_noColon(branch) ==
  LET targetIdentifier == computeTargetIdentifier(branch)
  IN  branch.TargetType \o B(<<" ">>) \o branch.Name \o <<0>>
        \o Itoa(Len(targetIdentifier)) \o targetIdentifier

serializeBranch(branch) ==
  LET targetIdentifier == computeTargetIdentifier(branch)
  IN  branch.TargetType \o B(<<" ">>) \o branch.Name \o <<0>>
        \o Itoa(Len(targetIdentifier)) \o B(<<":">>) \o targetIdentifier

\* The byte strings serializeBranches(branches) may return.
serializeBranches(branches) ==
  {Concat([i \in 1..Len(sorted) |-> serializeBranch(sorted[i])]) :
     sorted \in sortSlice(branches, [i \in 1..Len(branches) |-> branches[i].Name])}

snapshotHashed(serialized) ==
  gitHeader(B(<<"s", "n", "a", "p", "s", "h", "o", "t">>), Len(serialized)) \o serialized

ComputeSnapshotHash(serialized) == EncodeToString(sha1Sum(snapshotHashed(serialized)))

\* The content hashed with no header before it.
contentHashed_noHeader(data) == data

contentHashed(data) == gitHeader(B(<<"b", "l", "o", "b">>), Len(data)) \o data

ComputeContentHash(data) == EncodeToString(sha1Sum(contentHashed(data)))

(***************************************************************************)
(* The revision and release encoders                                        *)
(***************************************************************************)
\* The %d verb of fmt.Sprintf for an int64.
FormatInt(n) == IF n < 0 THEN B(<<"-">>) \o Itoa(0 - n) ELSE Itoa(n)

DefaultTimezone == B(<<"+", "0", "0", "0", "0">>)

\* The string as given, its newlines left alone.
escapeNewlines_asGiven(s) == s

escapeNewlines(s) == ReplaceAll(s, <<10>>, <<10, 32>>)

formatHeaderLine(key, value) == key \o B(<<" ">>) \o escapeNewlines(value)

\* fmt.Sprintf("<label> %s %d %s", identity, timestamp, tz)
personLine(label, identity, timestamp, tz) ==
  label \o B(<<" ">>) \o identity \o B(<<" ">>) \o FormatInt(timestamp) \o B(<<" ">>) \o tz

\* The timezone as given, also when it is empty.
timezoneOrDefault_asGiven(tz) == tz

\* tz := meta.XTimezone; if tz == "" { tz = "+0000" }
timezoneOrDefault(tz) == IF tz = <<>> THEN DefaultTimezone ELSE tz

\* The lines of a revision with the parents back to front.
revisionLines_parentsReversed(meta) ==
  <<B(<<"t", "r", "e", "e", " ">>) \o meta.Directory>>
    \o [i \in 1..Len(meta.Parents) |->
          B(<<"p", "a", "r", "e", "n", "t", " ">>) \o meta.Parents[Len(meta.Parents) + 1 - i]]
    \o <<personLine(B(<<"a", "u", "t", "h", "o", "r">>), escapeNewlines(meta.Author),
                    meta.AuthorTimestamp, timezoneOrDefault(meta.AuthorTimezone)),
         personLine(B(<<"c", "o", "m", "m", "i", "t", "t", "e", "r">>),
                    escapeNewlines(meta.Committer), meta.CommitterTimestamp,
                    timezoneOrDefault(meta.CommitterTimezone))>>
    \o [i \in 1..Len(meta.ExtraHeaders) |->
          formatHeaderLine(meta.ExtraHeaders[i][1], meta.ExtraHeaders[i][2])]

\* The lines serializeRevision collects.
revisionLines(meta) ==
  <<B(<<"t", "r", "e", "e", " ">>) \o meta.Directory>>
    \o [i \in 1..Len(meta.Parents) |->
          B(<<"p", "a", "r", "e", "n", "t", " ">>) \o meta.Parents[i]]
    \o <<personLine(B(<<"a", "u", "t", "h", "o", "r">>), escapeNewlines(meta.Author),
                    meta.AuthorTimestamp, timezoneOrDefault(meta.AuthorTimezone)),
         personLine(B(<<"c", "o", "m", "m", "i", "t", "t", "e", "r">>),
                    escapeNewlines(meta.Committer), meta.CommitterTimestamp,
                    timezoneOrDefault(meta.CommitterTimezone))>>
    \o [i \in 1..Len(meta.ExtraHeaders) |->
          formatHeaderLine(meta.ExtraHeaders[i][1], meta.ExtraHeaders[i][2])]

\* The lines and the message with the newlines of the message escaped.
joinWithMessage_escaped(lines, message) ==
  LET result == Join(lines, <<10>>) \o <<10>>
  IN  IF message # <<>> THEN result \o <<10>> \o escapeNewlines(message) ELSE result

\* result := strings.Join(lines, "\n") + "\n", then the message after a blank
\* line when there is one.
joinWithMessage(lines, message) ==
  LET result == Join(lines, <<10>>) \o <<10>>
  IN  IF message # <<>> THEN result \o <<10>> \o message ELSE result

serializeRevision(meta) == joinWithMessage(revisionLines(meta), meta.Message)

revisionHashed(serialized) ==
  gitHeader(B(<<"c", "o", "m", "m", "i", "t">>), Len(serialized)) \o serialized

ComputeRevisionHash(serialized) == EncodeToString(sha1Sum(revisionHashed(serialized)))

\* dropCR of bufio: the data without one carriage return at its end.
dropCR(data) ==
  IF data # <<>> /\ data[Len(data)] = 13 THEN Take(data, Len(data) - 1) ELSE data

\* The tokens of a bufio.Scanner with its default split function ScanLines:
\* the lines of rawData, each without its newline and without one carriage
\* return before it; nothing after the last newline is no line.
scanLines(rawData) ==
  [i \in 1..(IF Split(rawData, <<10>>)[Len(Split(rawData, <<10>>))] = <<>>
             THEN Len(Split(rawData, <<10>>)) - 1
             ELSE Len(Split(rawData, <<10>>))) |->
     dropCR(Split(rawData, <<10>>)[i])]

\* The loop of parseExtraHeaders over the lines left to scan.
RECURSIVE parseHeaderLines(_, _, _, _)
parseHeaderLines(lines, standardHeaders, inHeaders, extraHeaders) ==
  IF lines = <<>> THEN extraHeaders
  ELSE IF Head(lines) = <<>>
       THEN parseHeaderLines(Tail(lines), standardHeaders, FALSE, extraHeaders)
  ELSE IF ~inHeaders
       THEN parseHeaderLines(Tail(lines), standardHeaders, inHeaders, extraHeaders)
  ELSE IF Head(lines)[1] = 32
       THEN parseHeaderLines(Tail(lines), standardHeaders, inHeaders,
              IF Len(extraHeaders) > 0
              THEN [extraHeaders EXCEPT ![Len(extraHeaders)][2] = @ \o <<10>> \o Tail(Head(lines))]
              ELSE extraHeaders)
  ELSE IF Index(Head(lines), <<32>>) = 0
       THEN parseHeaderLines(Tail(lines), standardHeaders, inHeaders, extraHeaders)
  ELSE IF Take(Head(lines), Index(Head(lines), <<32>>) - 1) \in standardHeaders
       THEN parseHeaderLines(Tail(lines), standardHeaders, inHeaders, extraHeaders)
  ELSE parseHeaderLines(Tail(lines), standardHeaders, inHeaders,
         Append(extraHeaders, <<Take(Head(lines), Index(Head(lines), <<32>>) - 1),
                                Drop(Head(lines), Index(Head(lines), <<32>>))>>))

\* The list is nil when no header was appended; nil and the empty list are
\* both <<>> here.
parseExtraHeaders(rawData, standardHeaders) ==
  parseHeaderLines(scanLines(rawData), standardHeaders, TRUE, <<>>)

\* The standard headers extractCommitExtraHeaders passes.
CommitStandardHeaders ==
  {B(<<"t", "r", "e", "e">>), B(<<"p", "a", "r", "e", "n", "t">>),
   B(<<"a", "u", "t", "h", "o", "r">>), B(<<"c", "o", "m", "m", "i", "t", "t", "e", "r">>)}

TargetTypeContent   == B(<<"c", "n", "t">>)
TargetTypeDirectory == B(<<"d", "i", "r">>)
TargetTypeRevision  == B(<<"r", "e", "v">>)
TargetTypeRelease   == B(<<"r", "e", "l">>)
TargetTypeSnapshot  == B(<<"s", "n", "p">>)

\* The git type with "tag" for an unknown target type.
GitType_defaultTag(t) ==
  IF t.Type = TargetTypeContent THEN B(<<"b", "l", "o", "b">>)
  ELSE IF t.Type = TargetTypeDirectory THEN B(<<"t", "r", "e", "e">>)
  ELSE IF t.Type = TargetTypeRevision THEN B(<<"c", "o", "m", "m", "i", "t">>)
  ELSE IF t.Type = TargetTypeRelease THEN B(<<"t", "a", "g">>)
  ELSE IF t.Type = TargetTypeSnapshot THEN B(<<"s", "n", "a", "p", "s", "h", "o", "t">>)
  ELSE B(<<"t", "a", "g">>)

GitType(t) ==
  IF t.Type = TargetTypeContent THEN B(<<"b", "l", "o", "b">>)
  ELSE IF t.Type = TargetTypeDirectory THEN B(<<"t", "r", "e", "e">>)
  ELSE IF t.Type = TargetTypeRevision THEN B(<<"c", "o", "m", "m", "i", "t">>)
  ELSE IF t.Type = TargetTypeRelease THEN B(<<"t", "a", "g">>)
  ELSE IF t.Type = TargetTypeSnapshot THEN B(<<"s", "n", "a", "p", "s", "h", "o", "t">>)
  ELSE B(<<"c", "o", "m", "m", "i", "t">>)

\* The lines of a release with a tagger line also for an empty author.
releaseLines_alwaysTagger(meta) ==
  <<B(<<"o", "b", "j", "e", "c", "t", " ">>) \o meta.Target.Hash,
    B(<<"t", "y", "p", "e", " ">>) \o GitType(meta.Target),
    B(<<"t", "a", "g", " ">>) \o escapeNewlines(meta.Name)>>
    \o <<personLine(B(<<"t", "a", "g", "g", "e", "r">>), escapeNewlines(meta.Author),
                    meta.AuthorTimestamp, timezoneOrDefault(meta.AuthorTimezone))>>
    \o [i \in 1..Len(meta.ExtraHeaders) |->
          formatHeaderLine(meta.ExtraHeaders[i][1], meta.ExtraHeaders[i][2])]

\* The lines serializeRelease collects.
releaseLines(meta) ==
  <<B(<<"o", "b", "j", "e", "c", "t", " ">>) \o meta.Target.Hash,
    B(<<"t", "y", "p", "e", " ">>) \o GitType(meta.Target),
    B(<<"t", "a", "g", " ">>) \o escapeNewlines(meta.Name)>>
    \o (IF meta.Author # <<>>
        THEN <<personLine(B(<<"t", "a", "g", "g", "e", "r">>), escapeNewlines(meta.Author),
                          meta.AuthorTimestamp, timezoneOrDefault(meta.AuthorTimezone))>>
        ELSE <<>>)
    \o [i \in 1..Len(meta.ExtraHeaders) |->
          formatHeaderLine(meta.ExtraHeaders[i][1], meta.ExtraHeaders[i][2])]

serializeRelease(meta) == joinWithMessage(releaseLines(meta), meta.Message)

releaseHashed(serialized) == gitHeader(B(<<"t", "a", "g">>), Len(serialized)) \o serialized

ComputeReleaseHash(serialized) == EncodeToString(sha1Sum(releaseHashed(serialized)))

(***************************************************************************)
(* The From* functions: the hash of the object, then NewIdentifier with its *)
(* error dropped.  FromDirectory and FromSnapshotBranches are given the     *)
(* serialization their encoder made.                                        *)
(***************************************************************************)
FromContent(data) == NewIdentifier(ObjectTypeContent, ComputeContentHash(data), NilMap).id

FromDirectory(serialized) ==
  NewIdentifier(ObjectTypeDirectory, ComputeDirectoryHash(serialized), NilMap).id

FromRevisionMetadata(meta) ==
  NewIdentifier(ObjectTypeRevision, ComputeRevisionHash(serializeRevision(meta)), NilMap).id

FromReleaseMetadata(meta) ==
  NewIdentifier(ObjectTypeRelease, ComputeReleaseHash(serializeRelease(meta)), NilMap).id

FromSnapshotBranches(serialized) ==
  NewIdentifier(ObjectTypeSnapshot, ComputeSnapshotHash(serialized), NilMap).id

(***************************************************************************)
(* Inputs of the encoder calls                                              *)
(***************************************************************************)
\* Most directory entries of an enumerated list.
MaxEntries == 2

NameA      == B(<<"a">>)
NameASlash == B(<<"a", "/">>)
NameZ      == B(<<"Z">>)
NameADB    == B(<<"a", ".", "b">>)
NameA0     == B(<<"a", "0">>)
NameM      == B(<<"m">>)
NameM2     == B(<<"m", "2">>)
NameN      == B(<<"n">>)
NameD      == B(<<"d">>)

Entry(name, type, target, perms) ==
  [Name |-> name, Type |-> type, Target |-> target, Perms |-> perms]

\* Entries that share sort keys: one name with two targets and with two
\* kinds, and a directory "a" next to a file "a/".
TiedEntries ==
  {Entry(NameA, EntryTypeFile, HashA, <<>>),
   Entry(NameA, EntryTypeFile, HashZero, <<>>),
   Entry(NameA, EntryTypeExecutable, HashA, <<>>),
   Entry(NameA, EntryTypeDirectory, HashA, <<>>),
   Entry(NameASlash, EntryTypeFile, HashA, <<>>)}

\* Targets that are no 40-digit hex string: odd length, too short, too long,
\* a non-hex byte in the middle, a non-hex byte first, and the empty string.
BadTargets ==
  {Take(HashA, 39), Take(HashA, 38), HashA \o B(<<"0", "0">>),
   Take(HashA, 20) \o B(<<"z">>) \o Drop(HashA, 21), B(<<"z">>) \o Drop(HashA, 1), <<>>}

BadTargetEntries == {Entry(NameA, EntryTypeFile, t, <<>>) : t \in BadTargets}

\* The list l back to front.
Reverse(l) == [i \in 1..Len(l) |-> l[Len(l) + 1 - i]]

\* A client with a list of entries and the same list in another order.
DirectoryClients ==
  {[kind |-> "directory", entries |-> l, reordered |-> Reverse(l)] :
     l \in SeqsUpTo(TiedEntries, MaxEntries)}
  \cup {[kind |-> "directory", entries |-> <<e>>, reordered |-> <<e>>] : e \in BadTargetEntries}

\* The lists of at most n elements of the list l, in the order of l.
SubSeqsUpTo(l, n) ==
  UNION {{[i \in 1..k |-> l[g[i]]] :
            g \in {h \in [1..k -> 1..Len(l)] : \A i \in 1..(k - 1) : h[i] < h[i + 1]}} :
           k \in 0..n}

\* One entry of every kind, under names of which no two are equal: a
\* directory "a" before the files "a.b" and "a0", and a file and a directory
\* with explicit permissions.
KindEntries ==
  <<Entry(NameA, EntryTypeDirectory, HashZero, <<>>),
    Entry(NameADB, EntryTypeFile, HashA, <<>>),
    Entry(NameA0, EntryTypeFile, HashA, <<>>),
    Entry(NameZ, EntryTypeExecutable, HashA, <<>>),
    Entry(NameM, EntryTypeSymlink, HashZero, <<>>),
    Entry(NameN, EntryTypeRevision, HashA, <<>>),
    Entry(NameM2, EntryTypeFile, HashA, B(<<"1", "0", "0", "7", "5", "5">>)),
    Entry(NameD, EntryTypeDirectory, HashA, B(<<"0", "4", "0", "0", "0", "0">>))>>

\* A client with some of these entries, in this order and back to front.
DirectoryKindClients ==
  {[kind |-> "directory", entries |-> l, reordered |-> Reverse(l)] :
     l \in SubSeqsUpTo(KindEntries, MaxEntries)}

\* Most branches of an enumerated list.
MaxBranches == 2

Branch(name, targetType, target) == [Name |-> name, TargetType |-> targetType, Target |-> target]

\* Branches that share the name "m" and differ in target kind or target, and
\* one branch of another name.
BranchInputs ==
  {Branch(NameM, BranchTargetRevision, HashA),
   Branch(NameM, BranchTargetRevision, HashZero),
   Branch(NameM, BranchTargetAlias, NameA),
   Branch(NameM, BranchTargetDangling, <<>>),
   Branch(NameA, BranchTargetRevision, HashA)}

\* A client with a list of branches and the same list in another order.
SnapshotClients ==
  {[kind |-> "snapshot", branches |-> l, reordered |-> Reverse(l)] :
     l \in SeqsUpTo(BranchInputs, MaxBranches)}

\* One branch of every target kind, under names of which no two are equal:
\* an upper-case name, the branch "a.b" before a directory-target branch "a"
\* and "a0", an alias and a dangling branch.
KindBranches ==
  <<Branch(NameZ, BranchTargetContent, HashZero),
    Branch(NameADB, BranchTargetRevision, HashA),
    Branch(NameA, BranchTargetDirectory, HashA),
    Branch(NameA0, BranchTargetRelease, HashZero),
    Branch(NameM, BranchTargetSnapshot, HashA),
    Branch(NameM2, BranchTargetAlias, NameM),
    Branch(NameN, BranchTargetDangling, <<>>)>>

\* Branches to an object whose target is no 40-digit hex string.
BadTargetBranches == {Branch(NameM, BranchTargetRevision, t) : t \in BadTargets}

SnapshotBadTargetClients ==
  {[kind |-> "snapshot", branches |-> <<br>>, reordered |-> <<br>>] : br \in BadTargetBranches}

SnapshotKindClients ==
  {[kind |-> "snapshot", branches |-> l, reordered |-> Reverse(l)] :
     l \in SubSeqsUpTo(KindBranches, MaxBranches)}

\* Contents: empty, the inputs of TestComputeContentHash, a NUL and a 0xff
\* byte, and lengths around the block size of the hash.
ContentInputs ==
  {<<>>, <<10>>, B(<<"h", "e", "l", "l", "o">>) \o <<10>>,
   B(<<"H", "e", "l", "l", "o", ",", " ", "W", "o", "r", "l", "d", "!">>), <<0, 255>>,
   Rep(B(<<"a">>), 48), Rep(B(<<"a">>), 49), Rep(B(<<"a">>), 57)}

ContentClients == {[kind |-> "content", data |-> d] : d \in ContentInputs}

\* Most parents of an enumerated revision.
MaxParents == 2
\* Most extra headers of an enumerated revision or release.
MaxExtraHeaders == 1

Revision(parents, author, aTime, aZone, committer, cTime, cZone, message, extraHeaders) ==
  [Directory |-> HashA, Parents |-> parents, Author |-> author, AuthorTimestamp |-> aTime,
   AuthorTimezone |-> aZone, Committer |-> committer, CommitterTimestamp |-> cTime,
   CommitterTimezone |-> cZone, Message |-> message, ExtraHeaders |-> extraHeaders]

\* Author and committer: both empty, both plain, and an author of two lines.
IdentityA  == B(<<"A", " ", "<", "a", "@", "b", ">">>)
IdentityC  == B(<<"C", " ", "<", "c", "@", "d", ">">>)
IdentityNL == B(<<"A">>) \o <<10>> \o B(<<"B">>)
Identities == {<<<<>>, <<>>>>, <<IdentityA, IdentityC>>, <<IdentityNL, IdentityC>>}

Timestamp   == 1234567890
TimezoneOne == B(<<"+", "0", "1", "0", "0">>)
Timezones   == {<<>>, DefaultTimezone, TimezoneOne}

\* Messages: none, one line, and lines with a blank line between them.
MessageOne   == B(<<"m">>) \o <<10>>
MessageBlank == B(<<"l">>) \o <<10, 10>> \o B(<<"k">>)
Messages     == {<<>>, MessageOne, MessageBlank}

\* Extra headers: a signature of two lines and a key with an empty value.
ExtraHeaderInputs ==
  {<<B(<<"g", "p", "g", "s", "i", "g">>), B(<<"s">>) \o <<10>> \o B(<<"t">>)>>,
   <<B(<<"k">>), <<>>>>}

ExtraHeaderLists == SeqsUpTo(ExtraHeaderInputs, MaxExtraHeaders)

\* Revisions by parents, identities and extra headers, each followed by the
\* same revision with the parents back to front when that is another list.
RevisionParentClients ==
  {[kind |-> "revision",
    metas |-> LET m == Revision(ps, id[1], Timestamp, DefaultTimezone, id[2], 0 - 1,
                                DefaultTimezone, MessageOne, ex)
              IN  IF Reverse(ps) = ps THEN <<m>> ELSE <<m, [m EXCEPT !.Parents = Reverse(ps)]>>] :
     ps \in SeqsUpTo({HashA, HashZero}, MaxParents), id \in Identities, ex \in ExtraHeaderLists}

\* Revisions by timezones, each followed by the same revision with other
\* timezones.
RevisionTimezoneClients ==
  {[kind |-> "revision",
    metas |-> <<Revision(<<>>, IdentityA, Timestamp, tz[1], IdentityC, 0, tz[2], MessageOne, <<>>),
                Revision(<<>>, IdentityA, Timestamp, tz[3], IdentityC, 0, tz[4], MessageOne, <<>>)>>] :
     tz \in {t \in [1..4 -> Timezones] : t[3] # <<>> /\ t[4] # <<>>}}

\* Revisions by message and extra headers.
RevisionMessageClients ==
  {[kind |-> "revision",
    metas |-> <<Revision(<<>>, id[1], 0, <<>>, id[2], 0, <<>>, msg, ex)>>] :
     id \in Identities, msg \in Messages, ex \in ExtraHeaderLists}

\* Extra headers to read back: the two above, a value that ends in a newline
\* and a signature whose lines end in carriage return and newline.
HeaderValueInputs ==
  ExtraHeaderInputs
    \cup {<<B(<<"k">>), B(<<"v">>) \o <<10>>>>,
          <<B(<<"g", "p", "g", "s", "i", "g">>), B(<<"s">>) \o <<13, 10>> \o B(<<"t">>)>>}

\* Revisions by extra headers, with one more header than the other revisions
\* so that their order shows, by author and by message.
RevisionHeaderClients ==
  {[kind |-> "revision",
    metas |-> <<Revision(<<HashZero>>, id[1], Timestamp, <<>>, id[2], 0, <<>>, msg, ex)>>] :
     id \in {<<IdentityA, IdentityC>>, <<IdentityNL, IdentityC>>}, msg \in {<<>>, MessageBlank},
     ex \in SeqsUpTo(HeaderValueInputs, MaxExtraHeaders + 1)}

RevisionClients ==
  RevisionParentClients \cup RevisionTimezoneClients \cup RevisionMessageClients
    \cup RevisionHeaderClients

Release(name, type, author, authorTimestamp, authorTimezone, message, extraHeaders) ==
  [Name |-> name, Target |-> [Hash |-> HashA, Type |-> type], Author |-> author,
   AuthorTimestamp |-> authorTimestamp, AuthorTimezone |-> authorTimezone,
   Message |-> message, ExtraHeaders |-> extraHeaders]

NameV1 == B(<<"v", "1">>)
NameNL == B(<<"v">>) \o <<10>> \o B(<<"1">>)

\* Target types: the five known ones, an unknown one and the empty string.
TargetTypeInputs ==
  {TargetTypeContent, TargetTypeDirectory, TargetTypeRevision, TargetTypeRelease,
   TargetTypeSnapshot, B(<<"f", "o", "o">>), <<>>}

\* Releases by target type and name.
ReleaseTargetClients ==
  {[kind |-> "release", metas |-> <<Release(n, t, IdentityA, Timestamp, TimezoneOne, MessageOne, <<>>)>>] :
     n \in {NameV1, NameNL}, t \in TargetTypeInputs}

\* Releases by tagger, timestamp and timezone, each followed by the same
\* release with another timezone.
ReleaseTaggerClients ==
  {[kind |-> "release",
    metas |-> <<Release(NameV1, TargetTypeRevision, au, ts, tz, MessageOne, <<>>),
                Release(NameV1, TargetTypeRevision, au, ts, tz2, MessageOne, <<>>)>>] :
     au \in {<<>>, IdentityA, IdentityNL}, ts \in {0, Timestamp}, tz \in Timezones,
     tz2 \in {DefaultTimezone, TimezoneOne}}

\* Releases by message, extra headers and tagger.
ReleaseMessageClients ==
  {[kind |-> "release",
    metas |-> <<Release(NameV1, TargetTypeRevision, au, Timestamp, <<>>, msg, ex)>>] :
     au \in {<<>>, IdentityA}, msg \in Messages, ex \in ExtraHeaderLists}

ReleaseClients == ReleaseTargetClients \cup ReleaseTaggerClients \cup ReleaseMessageClients

ObjectClients ==
  DirectoryClients \cup DirectoryKindClients \cup SnapshotClients \cup SnapshotKindClients \cup SnapshotBadTargetClients
    \cup ContentClients \cup RevisionClients
    \cup ReleaseClients

(***************************************************************************)
(* The calls of a client of the encoders.  call is the last call with its   *)
(* arguments and results; prev, when not empty, holds the call before it.   *)
(***************************************************************************)
InitObjects ==
  /\ input \in ObjectClients
  /\ a = NilId
  /\ b = NilId
  /\ src = <<>>
  /\ call = [op |-> "none"]

\* digest := ComputeDirectoryHash(entries), first on the client's list and
\* then on the reordered one.  after is the caller's slice after the call:
\* serializeEntries sorts a copy it makes of the slice.
ComputeDirectoryHashCall ==
  /\ input.kind = "directory"
  /\ call.op = "none" \/ (call.op = "ComputeDirectoryHash" /\ call.prev = <<>>)
  /\ LET entries == IF call.op = "none" THEN input.entries ELSE input.reordered
     IN  \E serialized \in serializeEntries(entries) :
           call' = [op |-> "ComputeDirectoryHash", entries |-> entries,
                    serialized |-> serialized, hashed |-> directoryHashed(serialized),
                    digest |-> ComputeDirectoryHash(serialized), err |-> NoErr,
                    after |-> entries,
                    prev |-> IF call.op = "none" THEN <<>>
                             ELSE <<[entries |-> call.entries, serialized |-> call.serialized,
                                     digest |-> call.digest]>>]
  /\ UNCHANGED <<input, a, b, src>>

\* digest := ComputeSnapshotHash(branches), first on the client's list and
\* then on the reordered one.
ComputeSnapshotHashCall ==
  /\ input.kind = "snapshot"
  /\ call.op = "none" \/ (call.op = "ComputeSnapshotHash" /\ call.prev = <<>>)
  /\ LET branches == IF call.op = "none" THEN input.branches ELSE input.reordered
     IN  \E serialized \in serializeBranches(branches) :
           call' = [op |-> "ComputeSnapshotHash", branches |-> branches,
                    serialized |-> serialized, hashed |-> snapshotHashed(serialized),
                    digest |-> ComputeSnapshotHash(serialized),
                    prev |-> IF call.op = "none" THEN <<>>
                             ELSE <<[branches |-> call.branches, serialized |-> call.serialized,
                                     digest |-> call.digest]>>]
  /\ UNCHANGED <<input, a, b, src>>

\* digest := ComputeContentHash(data)
ComputeContentHashCall ==
  /\ input.kind = "content"
  /\ call.op = "none"
  /\ call' = [op |-> "ComputeContentHash", data |-> input.data, serialized |-> input.data,
              hashed |-> contentHashed(input.data), digest |-> ComputeContentHash(input.data)]
  /\ UNCHANGED <<input, a, b, src>>

\* The call before the next one, as the next call records it.
Prev == IF call.op = "none" THEN <<>>
        ELSE <<[meta |-> call.meta, serialized |-> call.serialized, digest |-> call.digest]>>

\* digest := ComputeRevisionHash(meta), on the client's revisions in turn.
ComputeRevisionHashCall ==
  /\ input.kind = "revision"
  /\ call.op = "none" \/ (call.op = "ComputeRevisionHash" /\ call.prev = <<>>)
  /\ Len(Prev) < Len(input.metas)
  /\ LET meta       == input.metas[Len(Prev) + 1]
         serialized == serializeRevision(meta)
     IN  call' = [op |-> "ComputeRevisionHash", meta |-> meta, serialized |-> serialized,
                  hashed |-> revisionHashed(serialized),
                  digest |-> ComputeRevisionHash(serialized), prev |-> Prev]
  /\ UNCHANGED <<input, a, b, src>>

\* extraHeaders := extractCommitExtraHeaders(repo, commit), the raw data of
\* the stored commit being the serialization of the revision just hashed.
ExtractCommitExtraHeadersCall ==
  /\ call.op = "ComputeRevisionHash"
  /\ call' = [op |-> "extractCommitExtraHeaders", meta |-> call.meta,
              rawData |-> call.serialized,
              extraHeaders |-> parseExtraHeaders(call.serialized, CommitStandardHeaders)]
  /\ UNCHANGED <<input, a, b, src>>

\* digest := ComputeReleaseHash(meta), on the client's releases in turn.
ComputeReleaseHashCall ==
  /\ input.kind = "release"
  /\ call.op = "none" \/ (call.op = "ComputeReleaseHash" /\ call.prev = <<>>)
  /\ Len(Prev) < Len(input.metas)
  /\ LET meta       == input.metas[Len(Prev) + 1]
         serialized == serializeRelease(meta)
     IN  call' = [op |-> "ComputeReleaseHash", meta |-> meta, serialized |-> serialized,
                  hashed |-> releaseHashed(serialized),
                  digest |-> ComputeReleaseHash(serialized), prev |-> Prev]
  /\ UNCHANGED <<input, a, b, src>>

\* a := FromContent(data)
FromContentCall ==
  /\ input.kind = "content"
  /\ call.op = "none"
  /\ a' = FromContent(input.data)
  /\ call' = [op |-> "FromContent", serialized |-> input.data, id |-> a']
  /\ UNCHANGED <<input, b, src>>

\* a := FromDirectory(entries)
FromDirectoryCall ==
  /\ input.kind = "directory"
  /\ call.op = "none"
  /\ \E serialized \in serializeEntries(input.entries) :
       /\ a' = FromDirectory(serialized)
       /\ call' = [op |-> "FromDirectory", serialized |-> serialized, id |-> a']
  /\ UNCHANGED <<input, b, src>>

\* a := FromRevisionMetadata(meta)
FromRevisionMetadataCall ==
  /\ input.kind = "revision"
  /\ call.op = "none"
  /\ a' = FromRevisionMetadata(input.metas[1])
  /\ call' = [op |-> "FromRevisionMetadata", serialized |-> serializeRevision(input.metas[1]),
              id |-> a']
  /\ UNCHANGED <<input, b, src>>

\* a := FromReleaseMetadata(meta)
FromReleaseMetadataCall ==
  /\ input.kind = "release"
  /\ call.op = "none"
  /\ a' = FromReleaseMetadata(input.metas[1])
  /\ call' = [op |-> "FromReleaseMetadata", serialized |-> serializeRelease(input.metas[1]),
              id |-> a']
  /\ UNCHANGED <<input, b, src>>

\* a := FromSnapshotBranches(branches)
FromSnapshotBranchesCall ==
  /\ input.kind = "snapshot"
  /\ call.op = "none"
  /\ \E serialized \in serializeBranches(input.branches) :
       /\ a' = FromSnapshotBranches(serialized)
       /\ call' = [op |-> "FromSnapshotBranches", serialized |-> serialized, id |-> a']
  /\ UNCHANGED <<input, b, src>>

NextObjects ==
  \/ ComputeContentHashCall
  \/ ComputeDirectoryHashCall
  \/ ComputeSnapshotHashCall
  \/ ComputeRevisionHashCall
  \/ ComputeReleaseHashCall
  \/ ExtractCommitExtraHeadersCall
  \/ FromContentCall
  \/ FromDirectoryCall
  \/ FromRevisionMetadataCall
  \/ FromReleaseMetadataCall
  \/ FromSnapshotBranchesCall

SpecObjects == InitObjects /\ [][NextObjects]_vars

(***************************************************************************)
(* A client of the whole package: it may hash an object or make its         *)
(* identifier with a From* function, and it makes, parses, compares,        *)
(* renders and re-qualifies identifiers.                                    *)
(***************************************************************************)
\* The object a client has: one of each kind, and an entry and a branch whose
\* target is not hex.
PackageObjects ==
  {[kind |-> "content", data |-> <<>>],
   [kind |-> "content", data |-> B(<<"h", "e", "l", "l", "o">>) \o <<10>>],
   [kind |-> "directory", entries |-> <<>>, reordered |-> <<>>],
   [kind |-> "directory", entries |-> <<Entry(NameA, EntryTypeFile, <<>>, <<>>)>>,
    reordered |-> <<Entry(NameA, EntryTypeFile, <<>>, <<>>)>>],
   [kind |-> "snapshot", branches |-> <<Branch(NameM, BranchTargetRevision, B(<<"z">>))>>,
    reordered |-> <<Branch(NameM, BranchTargetRevision, B(<<"z">>))>>],
   [kind |-> "revision",
    metas |-> <<Revision(<<>>, IdentityA, Timestamp, <<>>, IdentityC, Timestamp, <<>>,
                         MessageOne, <<>>)>>],
   [kind |-> "release",
    metas |-> <<Release(NameV1, TargetTypeRevision, <<>>, 0, <<>>, MessageOne, <<>>)>>]}

\* The arguments of the client's identifier calls.
PackageCalls ==
  {[swhidString |-> s, newA |-> x, newB |-> y, withQ |-> w] :
     s \in {<<>>, <<CoreA \o B(<<";", "x", "=", "1">>)>>, <<B(<<"s", "w", "h", ":", "2">>)>>},
     x \in {<<>>, <<<<ObjectTypeRelease, HashZero, OneQual(KeyX, ValV)>>>>,
            <<<<ObjectTypeRelease, <<>>, NilMap>>>>},
     y \in {<<>>, <<<<ObjectTypeContent, HashA, NilMap>>>>},
     w \in {<<>>, <<NilMap>>, <<OneQual(KeyY, ValV)>>}}

PackageClients == {obj @@ calls : obj \in PackageObjects, calls \in PackageCalls}

InitPackage ==
  /\ input \in PackageClients
  /\ a = NilId
  /\ b = NilId
  /\ src = <<>>
  /\ call = [op |-> "none"]

NextPackage == Next \/ NextObjects

SpecPackage == InitPackage /\ [][NextPackage]_vars

\* One list is a reordering of the other.
IsPermutation(l, m) == m \in PermsOfList(l)

\* C11: computing the directory hash of a list of entries and of any
\* reordering of that list gives the same serialized body and the same
\* digest, also when entries share a sort key.
C11_DirectoryOrderInvariant ==
  (call.op = "ComputeDirectoryHash" /\ call.prev # <<>>
     /\ IsPermutation(call.prev[1].entries, call.entries))
    => (call.serialized = call.prev[1].serialized /\ call.digest = call.prev[1].digest)

\* C12: computing the snapshot hash of a list of branches and of any
\* reordering of that list gives the same serialized body and the same
\* digest, also when branches share a name.
C12_SnapshotOrderInvariant ==
  (call.op = "ComputeSnapshotHash" /\ call.prev # <<>>
     /\ IsPermutation(call.prev[1].branches, call.branches))
    => (call.serialized = call.prev[1].serialized /\ call.digest = call.prev[1].digest)

\* The error the directory encoder is to fail with on a malformed target.
ErrInvalidTarget == "InvalidTarget"

\* A 40-digit hex string.
IsHex40(t) == Len(t) = 40 /\ \A i \in 1..40 : fromHexChar(t[i]) <= 15

\* C13: a call of the directory encoder on a list with an entry whose target
\* is no 40-digit hex string fails with InvalidTarget and returns no digest.
C13_InvalidTargetFails ==
  (call.op = "ComputeDirectoryHash" /\ \E i \in 1..Len(call.entries) : ~IsHex40(call.entries[i].Target))
    => (call.err = ErrInvalidTarget /\ call.digest = <<>>)

HashOps ==
  {"ComputeContentHash", "ComputeDirectoryHash", "ComputeRevisionHash", "ComputeReleaseHash",
   "ComputeSnapshotHash"}

\* The kind label of each Compute*Hash function.
KindLabel(op) ==
  IF op = "ComputeContentHash" THEN B(<<"b", "l", "o", "b">>)
  ELSE IF op = "ComputeDirectoryHash" THEN B(<<"t", "r", "e", "e">>)
  ELSE IF op = "ComputeRevisionHash" THEN B(<<"c", "o", "m", "m", "i", "t">>)
  ELSE IF op = "ComputeReleaseHash" THEN B(<<"t", "a", "g">>)
  ELSE B(<<"s", "n", "a", "p", "s", "h", "o", "t">>)

\* The framing of a body: label, space, decimal length, NUL, body.
Framed(op, body) == KindLabel(op) \o <<32>> \o Itoa(Len(body)) \o <<0>> \o body

\* C14: each Compute*Hash call writes to the hash the kind label, one space,
\* the decimal length of the encoder's body, one NUL byte and then the body,
\* and returns a digest of 40 lower-case hex digits.
C14_HeaderThenBody ==
  call.op \in HashOps
    => /\ call.hashed = Framed(call.op, call.serialized)
       /\ IsLowerHex40(call.digest)

C14_Witness ==
  /\ call.op = "ComputeSnapshotHash"
  /\ Len(call.serialized) >= 10
  /\ call.hashed = Framed(call.op, call.serialized)
  /\ IsLowerHex40(call.digest)

EmptyContentDigest ==
  B(<<"e", "6", "9", "d", "e", "2", "9", "b", "b", "2", "d", "1", "d", "6", "4", "3", "4", "b", "8", "b",
    "2", "9", "a", "e", "7", "7", "5", "a", "d", "8", "c", "2", "e", "4", "8", "c", "5", "3", "9", "1">>)

EmptyDirectoryDigest ==
  B(<<"4", "b", "8", "2", "5", "d", "c", "6", "4", "2", "c", "b", "6", "e", "b", "9", "a", "0", "6", "0",
    "e", "5", "4", "b", "f", "8", "d", "6", "9", "2", "8", "8", "f", "b", "e", "e", "4", "9", "0", "4">>)

EmptySnapshotDigest ==
  B(<<"1", "a", "8", "8", "9", "3", "e", "6", "a", "8", "6", "f", "4", "4", "4", "e", "8", "b", "e", "8",
    "e", "7", "b", "d", "a", "6", "c", "b", "3", "4", "f", "b", "1", "7", "3", "5", "a", "0", "0", "e">>)

\* C15: the empty content, the empty entry list and the empty branch list
\* hash a header of length 0 with no body and give the three known digests.
C15_EmptyDigests ==
  /\ (call.op = "ComputeContentHash" /\ call.data = <<>>)
       => (call.hashed = B(<<"b", "l", "o", "b", " ", "0">>) \o <<0>>
           /\ call.digest = EmptyContentDigest)
  /\ (call.op = "ComputeDirectoryHash" /\ call.entries = <<>>)
       => (call.hashed = B(<<"t", "r", "e", "e", " ", "0">>) \o <<0>>
           /\ call.digest = EmptyDirectoryDigest)
  /\ (call.op = "ComputeSnapshotHash" /\ call.branches = <<>>)
       => (call.hashed = B(<<"s", "n", "a", "p", "s", "h", "o", "t", " ", "0">>) \o <<0>>
           /\ call.digest = EmptySnapshotDigest)

C15_Witness ==
  /\ call.op = "ComputeContentHash"
  /\ call.data = <<>>
  /\ call.digest = EmptyContentDigest

\* The text s starts with the bytes of prefix.
StartsWith(s, prefix) == Len(s) >= Len(prefix) /\ Take(s, Len(prefix)) = prefix

\* The metadata with each empty timezone the encoder of op reads set to
\* "+0000".
TimezonesFilled(op, meta) ==
  LET fill(tz) == IF tz = <<>> THEN B(<<"+", "0", "0", "0", "0">>) ELSE tz
  IN  IF op = "ComputeRevisionHash"
      THEN [meta EXCEPT !.AuthorTimezone = fill(@), !.CommitterTimezone = fill(@)]
      ELSE [meta EXCEPT !.AuthorTimezone = fill(@)]

\* C16: two revisions, or two releases, that differ only in that timezones
\* empty in one are "+0000" in the other have the same serialization and the
\* same digest.
C16_EmptyTimezoneIsUtc ==
  (call.op \in {"ComputeRevisionHash", "ComputeReleaseHash"} /\ call.prev # <<>>
     /\ TimezonesFilled(call.op, call.meta) = TimezonesFilled(call.op, call.prev[1].meta))
    => (call.serialized = call.prev[1].serialized /\ call.digest = call.prev[1].digest)

C16_Witness ==
  /\ call.op = "ComputeRevisionHash"
  /\ call.prev # <<>>
  /\ call.prev[1].meta.AuthorTimezone = <<>>
  /\ call.prev[1].meta.CommitterTimezone = <<>>
  /\ call.meta = TimezonesFilled(call.op, call.prev[1].meta)
  /\ call.serialized = call.prev[1].serialized
  /\ call.digest = call.prev[1].digest

\* A line: its bytes and the newline that ends it.
Line(x) == x \o <<10>>

\* s with a space after each of its newlines.
NewlinesContinued(s) == Concat([i \in 1..Len(s) |-> IF s[i] = 10 THEN <<10, 32>> ELSE <<s[i]>>])

\* The line of an author, committer or tagger.
IdentityLine(label, identity, timestamp, tz) ==
  Line(label \o <<32>> \o NewlinesContinued(identity) \o <<32>> \o FormatInt(timestamp) \o <<32>>
         \o (IF tz = <<>> THEN B(<<"+", "0", "0", "0", "0">>) ELSE tz))

\* The lines of the extra headers, in their order.
ExtraHeaderBlock(hs) ==
  Concat([i \in 1..Len(hs) |-> Line(hs[i][1] \o <<32>> \o NewlinesContinued(hs[i][2]))])

\* The header block of a revision: tree, parents, author, committer, extra
\* headers.
RevisionHeaderBlock(meta) ==
  Line(B(<<"t", "r", "e", "e", " ">>) \o meta.Directory)
    \o Concat([i \in 1..Len(meta.Parents) |->
                 Line(B(<<"p", "a", "r", "e", "n", "t", " ">>) \o meta.Parents[i])])
    \o IdentityLine(B(<<"a", "u", "t", "h", "o", "r">>), meta.Author, meta.AuthorTimestamp,
                    meta.AuthorTimezone)
    \o IdentityLine(B(<<"c", "o", "m", "m", "i", "t", "t", "e", "r">>), meta.Committer,
                    meta.CommitterTimestamp, meta.CommitterTimezone)
    \o ExtraHeaderBlock(meta.ExtraHeaders)

\* C17: a revision body starts with the tree line, one parent line per parent
\* in the given order, the author line, the committer line and one line per
\* extra header in the given order; and two revisions that differ only in the
\* order of their parents have different bodies.
C17_RevisionLines ==
  call.op = "ComputeRevisionHash"
    => /\ StartsWith(call.serialized, RevisionHeaderBlock(call.meta))
       /\ (call.prev # <<>>
             /\ call.meta.Parents # call.prev[1].meta.Parents
             /\ call.meta = [call.prev[1].meta EXCEPT !.Parents = call.meta.Parents]
             /\ IsPermutation(call.prev[1].meta.Parents, call.meta.Parents))
            => call.serialized # call.prev[1].serialized

C17_Witness ==
  /\ call.op = "ComputeRevisionHash"
  /\ call.prev # <<>>
  /\ Len(call.meta.Parents) = 2
  /\ call.meta.Parents = Reverse(call.prev[1].meta.Parents)
  /\ call.meta.Parents # call.prev[1].meta.Parents
  /\ call.meta.Author = <<>>
  /\ call.meta.Committer = <<>>
  /\ call.meta.ExtraHeaders # <<>>
  /\ StartsWith(call.serialized, RevisionHeaderBlock(call.meta))
  /\ call.serialized # call.prev[1].serialized

\* The first three lines of a release: object, type, tag.
GitTypeName(type) ==
  IF type = B(<<"c", "n", "t">>) THEN B(<<"b", "l", "o", "b">>)
  ELSE IF type = B(<<"d", "i", "r">>) THEN B(<<"t", "r", "e", "e">>)
  ELSE IF type = B(<<"r", "e", "l">>) THEN B(<<"t", "a", "g">>)
  ELSE IF type = B(<<"s", "n", "p">>) THEN B(<<"s", "n", "a", "p", "s", "h", "o", "t">>)
  ELSE B(<<"c", "o", "m", "m", "i", "t">>)

ReleaseFirstLines(meta) ==
  Line(B(<<"o", "b", "j", "e", "c", "t", " ">>) \o meta.Target.Hash)
    \o Line(B(<<"t", "y", "p", "e", " ">>) \o GitTypeName(meta.Target.Type))
    \o Line(B(<<"t", "a", "g", " ">>) \o NewlinesContinued(meta.Name))

TaggerLine(meta) ==
  IdentityLine(B(<<"t", "a", "g", "g", "e", "r">>), meta.Author, meta.AuthorTimestamp,
               meta.AuthorTimezone)

\* The header block of a release: the first three lines, the tagger line when
\* there is an author, the extra headers.
ReleaseHeaderBlock(meta) ==
  ReleaseFirstLines(meta) \o (IF meta.Author = <<>> THEN <<>> ELSE TaggerLine(meta))
    \o ExtraHeaderBlock(meta.ExtraHeaders)

HeaderBlock(op, meta) ==
  IF op = "ComputeRevisionHash" THEN RevisionHeaderBlock(meta) ELSE ReleaseHeaderBlock(meta)

\* C18: the body of a revision or release is its header lines, each ended by
\* a newline, and nothing more when the message is empty; otherwise one more
\* newline and the bytes of the message as they are.
C18_MessageAfterBlankLine ==
  call.op \in {"ComputeRevisionHash", "ComputeReleaseHash"}
    => call.serialized =
         HeaderBlock(call.op, call.meta)
           \o (IF call.meta.Message = <<>> THEN <<>> ELSE <<10>> \o call.meta.Message)

C18_Witness ==
  /\ call.op = "ComputeReleaseHash"
  /\ call.meta.ExtraHeaders # <<>>
  /\ \E i \in 1..(Len(call.meta.Message) - 1) :
       call.meta.Message[i] = 10 /\ call.meta.Message[i + 1] = 10
  /\ call.serialized = ReleaseHeaderBlock(call.meta) \o <<10>> \o call.meta.Message

\* The number of lines of the text s that start with the bytes of prefix.
LinesStarting(s, prefix) ==
  Cardinality({i \in 1..Len(Split(s, <<10>>)) :
                 StartsWith(Split(s, <<10>>)[i], prefix)})

\* C19: a release with an empty author has no line starting with "tagger ",
\* whatever its timestamp and timezone; one with an author has exactly one,
\* "tagger <author> <timestamp> <timezone>", right after the tag line and
\* before the extra headers.
C19_TaggerOnlyWithAuthor ==
  call.op = "ComputeReleaseHash"
    => LET first  == ReleaseFirstLines(call.meta)
           rest   == IF StartsWith(call.serialized, first)
                     THEN Drop(call.serialized, Len(first)) ELSE <<>>
           afterT == IF StartsWith(rest, TaggerLine(call.meta))
                     THEN Drop(rest, Len(TaggerLine(call.meta))) ELSE <<>>
           tagger == B(<<"t", "a", "g", "g", "e", "r", " ">>)
       IN  /\ StartsWith(call.serialized, first)
           /\ IF call.meta.Author = <<>>
              THEN /\ LinesStarting(call.serialized, tagger) = 0
                   /\ StartsWith(rest, ExtraHeaderBlock(call.meta.ExtraHeaders))
              ELSE /\ LinesStarting(call.serialized, tagger) = 1
                   /\ StartsWith(rest, TaggerLine(call.meta))
                   /\ StartsWith(afterT, ExtraHeaderBlock(call.meta.ExtraHeaders))

C19_Witness ==
  /\ call.op = "ComputeReleaseHash"
  /\ call.meta.Author = <<>>
  /\ call.meta.AuthorTimestamp # 0
  /\ call.meta.AuthorTimezone # <<>>
  /\ LinesStarting(call.serialized, B(<<"t", "a", "g", "g", "e", "r", " ">>)) = 0

\* C20: a release body starts with the lines "object <target hash>",
\* "type <git type>" and "tag <name>", the git type being blob, tree, commit,
\* tag or snapshot for cnt, dir, rev, rel or snp and commit for anything else.
C20_ReleaseFirstLines ==
  call.op = "ComputeReleaseHash"
    => StartsWith(call.serialized, ReleaseFirstLines(call.meta))

C20_Witness ==
  /\ call.op = "ComputeReleaseHash"
  /\ call.meta.Target.Type = B(<<"f", "o", "o">>)
  /\ StartsWith(call.serialized, ReleaseFirstLines(call.meta))
  /\ GitTypeName(call.meta.Target.Type) = B(<<"c", "o", "m", "m", "i", "t">>)

(***************************************************************************)
(* The formats of branches and directory entries                            *)
(***************************************************************************)
\* The 20 bytes a 40-digit hex string stands for.
Raw20(t) == [i \in 1..20 |-> 16 * HexValue(t[2 * i - 1]) + HexValue(t[2 * i])]

HashTargetKinds ==
  {BranchTargetContent, BranchTargetDirectory, BranchTargetRevision, BranchTargetRelease,
   BranchTargetSnapshot}

\* The branch is of one of the seven kinds, with a 40-digit hex target when
\* its kind is one of the five that point to an object.
WellFormedBranch(br) ==
  \/ br.TargetType \in HashTargetKinds /\ IsHex40(br.Target)
  \/ br.TargetType \in {BranchTargetAlias, BranchTargetDangling}

\* The bytes of one branch as the format gives them.
BranchBytes(br) ==
  br.TargetType \o <<32>> \o br.Name \o <<0>>
    \o (IF br.TargetType \in HashTargetKinds THEN B(<<"2", "0", ":">>) \o Raw20(br.Target)
        ELSE IF br.TargetType = BranchTargetAlias
             THEN Itoa(Len(br.Target)) \o B(<<":">>) \o br.Target
             ELSE B(<<"0", ":">>))

\* The orders of the positions 1..Len(l) along which key never decreases.
OrdersBy(l, key) ==
  {p \in Perms(1..Len(l)) :
     \A i, j \in 1..Len(l) : i < j => ~StrLess(key[p[j]], key[p[i]])}

\* C21: the serialized body of a snapshot is the concatenation, with no
\* separator, of its branches in ascending byte-wise order of bare name, each
\* as label, space, name, NUL, decimal length of the target identifier, ':'
\* and the target identifier: the 20 decoded bytes for the five object kinds,
\* the target name for an alias, nothing for a dangling branch.
C21_BranchFormat ==
  (call.op = "ComputeSnapshotHash" /\ \A i \in DOMAIN call.branches : WellFormedBranch(call.branches[i]))
    => \E p \in OrdersBy(call.branches, [i \in DOMAIN call.branches |-> call.branches[i].Name]) :
         call.serialized = Concat([i \in DOMAIN call.branches |-> BranchBytes(call.branches[p[i]])])

\* A snapshot given as revision branch "a.b" then directory branch "a" has
\* been serialized, the branch "a" first.
C21_Witness ==
  /\ call.op = "ComputeSnapshotHash"
  /\ call.branches = <<Branch(NameADB, BranchTargetRevision, HashA),
                       Branch(NameA, BranchTargetDirectory, HashA)>>
  /\ StartsWith(call.serialized, BranchTargetDirectory \o <<32>> \o NameA \o <<0>>)

\* The permission string of each kind of entry.
KindPerms ==
  <<B(<<"1", "0", "0", "6", "4", "4">>), B(<<"1", "0", "0", "7", "5", "5">>),
    B(<<"4", "0", "0", "0", "0">>), B(<<"1", "2", "0", "0", "0", "0">>),
    B(<<"1", "6", "0", "0", "0", "0">>)>>

EntryKinds ==
  {EntryTypeFile, EntryTypeExecutable, EntryTypeDirectory, EntryTypeSymlink, EntryTypeRevision}

\* The entry is of one of the five kinds and has a 40-digit hex target.
WellFormedEntry(e) == e.Type \in EntryKinds /\ IsHex40(e.Target)

\* The bytes of one entry as the format gives them.
EntryBytes(e) ==
  (IF e.Perms # <<>> THEN e.Perms ELSE KindPerms[e.Type + 1])
    \o <<32>> \o e.Name \o <<0>> \o Raw20(e.Target)

\* C22: the serialized body of a directory is made of its entries with no
\* separator, each as permission string, space, name, NUL and the 20 bytes
\* decoded from its target; the permission string is the explicit Perms when
\* there is one and otherwise 100644, 100755, 40000, 120000 or 160000 by kind.
C22_EntryFormat ==
  (call.op = "ComputeDirectoryHash" /\ \A i \in DOMAIN call.entries : WellFormedEntry(call.entries[i]))
    => \E p \in Perms(DOMAIN call.entries) :
         call.serialized = Concat([i \in DOMAIN call.entries |-> EntryBytes(call.entries[p[i]])])

\* A directory entry without and a directory entry with explicit permissions
\* have been serialized together.
C22_Witness ==
  /\ call.op = "ComputeDirectoryHash"
  /\ Len(call.entries) = 2
  /\ call.entries[1] = Entry(NameA, EntryTypeDirectory, HashZero, <<>>)
  /\ call.entries[2] = Entry(NameD, EntryTypeDirectory, HashA, B(<<"0", "4", "0", "0", "0", "0">>))
  /\ Len(call.serialized) = 28 + 29

\* The sort key the format gives an entry.
EntryKey(e) == IF e.Type = EntryTypeDirectory THEN e.Name \o <<47>> ELSE e.Name

\* C23: the entries appear in the body in non-decreasing byte-wise order of
\* name + '/' for a directory and of the bare name for every other kind, and
\* the slice of the caller is as it was before the call.
C23_EntryOrder ==
  (call.op = "ComputeDirectoryHash" /\ \A i \in DOMAIN call.entries : WellFormedEntry(call.entries[i]))
    => /\ \E p \in OrdersBy(call.entries, [i \in DOMAIN call.entries |-> EntryKey(call.entries[i])]) :
            call.serialized
              = Concat([i \in DOMAIN call.entries |-> EntryBytes(call.entries[p[i]])])
       /\ call.after = call.entries

\* A directory "a" given before a file "a.b" has been serialized after it,
\* and the slice still holds the directory first.
C23_Witness ==
  /\ call.op = "ComputeDirectoryHash"
  /\ call.entries = <<Entry(NameA, EntryTypeDirectory, HashZero, <<>>),
                      Entry(NameADB, EntryTypeFile, HashA, <<>>)>>
  /\ StartsWith(call.serialized, B(<<"1", "0", "0", "6", "4", "4", " ", "a", ".", "b">>) \o <<0>>)
  /\ call.after[1].Type = EntryTypeDirectory

(***************************************************************************)
(* The identifier type: replacing qualifiers, comparing with nil            *)
(***************************************************************************)
\* C24: id.WithQualifiers(m) returns an identifier with the scheme, version,
\* object type and hash of id and with exactly the qualifiers of m, none of
\* id's own qualifiers being kept unless m has it; id is as it was.
C24_WithQualifiersReplaces ==
  call.op = "WithQualifiers"
    => /\ call.ret # NilId
       /\ call.ret[1].Scheme = call.id[1].Scheme
       /\ call.ret[1].Version = call.id[1].Version
       /\ call.ret[1].ObjectType = call.id[1].ObjectType
       /\ call.ret[1].ObjectHash = call.id[1].ObjectHash
       /\ Pairs(call.ret[1].Qualifiers) = Pairs(call.qualifiers)
       /\ call.after = call.id

\* An identifier with a qualifier x has been given a map with only y.
C24_Witness ==
  /\ call.op = "WithQualifiers"
  /\ DOMAIN call.id[1].Qualifiers.kv = {KeyX}
  /\ DOMAIN call.qualifiers.kv = {KeyY}
  /\ DOMAIN call.ret[1].Qualifiers.kv = {KeyY}

\* C25: a call of Equal in which the receiver or the argument is a nil
\* identifier does not fail and returns false.
C25_EqualNilIsFalse ==
  (call.op = "Equal" /\ (call.id = NilId \/ call.other = NilId))
    => (~call.panic /\ ~call.val)

(***************************************************************************)
(* The From* functions                                                      *)
(***************************************************************************)
FromOps ==
  {"FromContent", "FromDirectory", "FromRevisionMetadata", "FromReleaseMetadata",
   "FromSnapshotBranches"}

\* The three-letter code of the identifiers a From* function makes.
FromCode(op) ==
  IF op = "FromContent" THEN B(<<"c", "n", "t">>)
  ELSE IF op = "FromDirectory" THEN B(<<"d", "i", "r">>)
  ELSE IF op = "FromRevisionMetadata" THEN B(<<"r", "e", "v">>)
  ELSE IF op = "FromReleaseMetadata" THEN B(<<"r", "e", "l">>)
  ELSE B(<<"s", "n", "p">>)

\* The label of the object kind a From* function hashes.
FromLabel(op) ==
  IF op = "FromContent" THEN B(<<"b", "l", "o", "b">>)
  ELSE IF op = "FromDirectory" THEN B(<<"t", "r", "e", "e">>)
  ELSE IF op = "FromRevisionMetadata" THEN B(<<"c", "o", "m", "m", "i", "t">>)
  ELSE IF op = "FromReleaseMetadata" THEN B(<<"t", "a", "g">>)
  ELSE B(<<"s", "n", "a", "p", "s", "h", "o", "t">>)

\* C26: each From* function returns, for every input and also for entries
\* and branches with malformed targets, a non-nil identifier of the object
\* type of its kind, with the hash the matching Compute*Hash function gives
\* for the input and with an empty qualifier map.
C26_FromNeverNil ==
  call.op \in FromOps
    => /\ call.id # NilId
       /\ a = call.id
       /\ call.id[1].Scheme = B(<<"s", "w", "h">>)
       /\ call.id[1].Version = 1
       /\ call.id[1].ObjectType = FromCode(call.op)
       /\ call.id[1].ObjectHash
            = EncodeToString(sha1Sum(FromLabel(call.op) \o <<32>> \o Itoa(Len(call.serialized))
                                       \o <<0>> \o call.serialized))
       /\ call.id[1].Qualifiers = EmptyMap

\* FromSnapshotBranches has been called with a branch whose target is not
\* hex, and has returned an identifier.
C26_Witness ==
  /\ call.op = "FromSnapshotBranches"
  /\ input.branches # <<>>
  /\ input.branches[1].TargetType = BranchTargetRevision
  /\ ~IsHex40(input.branches[1].Target)
  /\ call.id # NilId

(***************************************************************************)
(* The invariant of the identifier type                                     *)
(***************************************************************************)
\* "swh:1:" + type + ":" + hash for the identifier record id.
CoreOf(id) ==
  B(<<"s", "w", "h", ":", "1", ":">>) \o id.ObjectType \o <<58>> \o id.ObjectHash

\* The identifier p, when not nil, has scheme swh, version 1, one of the five
\* codes and a hash of 40 lower-case hex digits; every string String() may
\* give for it begins with its core, and Parse accepts that core.
WellFormedId(p) ==
  p # NilId
    => /\ p[1].Scheme = B(<<"s", "w", "h">>)
       /\ p[1].Version = 1
       /\ p[1].ObjectType \in FiveCodes
       /\ IsLowerHex40(p[1].ObjectHash)
       /\ \A iter \in RangeOrders(p[1].Qualifiers) : StartsWith(String(p[1], iter), CoreOf(p[1]))
       /\ Parse(CoreOf(p[1])).err = NoErr

\* C27: after any sequence of NewIdentifier, Parse, From* and WithQualifiers
\* calls, each identifier the client holds, and the one the last call
\* returned, is well formed in the sense above.
C27_IdentifierInvariant ==
  /\ WellFormedId(a)
  /\ WellFormedId(b)
  /\ call.op \in {"NewIdentifier", "Parse"} \cup FromOps => WellFormedId(call.id)
  /\ call.op = "WithQualifiers" => WellFormedId(call.ret)

\* The identifier of a release made by FromReleaseMetadata has been given a
\* qualifier by WithQualifiers.
C27_Witness ==
  /\ call.op = "WithQualifiers"
  /\ input.kind = "release"
  /\ input.newA = <<>>
  /\ input.swhidString = <<>>
  /\ a # NilId
  /\ a[1].ObjectType = B(<<"r", "e", "l">>)
  /\ DOMAIN a[1].Qualifiers.kv = {KeyY}

(***************************************************************************)
(* Format, then parse                                                       *)
(***************************************************************************)
\* No key of the map m is empty or holds ';' or '='.
PlainKeys(m) ==
  \A k \in DOMAIN m.kv : k # <<>> /\ \A i \in DOMAIN k : k[i] \notin {Semicolon, EqualSign}

\* The identifier p is what NewIdentifier makes of the client's arguments.
MadeByNewIdentifier(p) ==
  /\ input.newA # <<>>
  /\ p = NewIdentifier(input.newA[1][1], input.newA[1][2], input.newA[1][3]).id

\* C28: for an identifier id made by NewIdentifier whose qualifier keys are
\* not empty and hold no ';' and no '=', Parse(id.String()) succeeds and its
\* result is Equal to id and has, under each key, the value id has, whatever
\* bytes the values hold.
C28_FormatThenParse ==
  (call.op = "ParseOutput" /\ MadeByNewIdentifier(call.from)
     /\ PlainKeys(call.from[1].Qualifiers))
    => /\ call.err = NoErr
       /\ call.id # NilId
       /\ Equal(call.from[1], call.id)
       /\ \A k \in DOMAIN call.from[1].Qualifiers.kv :
            /\ k \in DOMAIN call.id[1].Qualifiers.kv
            /\ call.id[1].Qualifiers.kv[k] = call.from[1].Qualifiers.kv[k]

(***************************************************************************)
(* Header lines and their continuations                                     *)
(***************************************************************************)
\* The text s up to and with the newline before its first blank line, all of
\* s when it has no blank line.
BeforeBlankLine(s) ==
  IF \A i \in 1..(Len(s) - 1) : ~(s[i] = 10 /\ s[i + 1] = 10) THEN s
  ELSE Take(s, CHOOSE i \in 1..(Len(s) - 1) :
                 /\ s[i] = 10 /\ s[i + 1] = 10
                 /\ \A j \in 1..(i - 1) : ~(s[j] = 10 /\ s[j + 1] = 10))

\* The lines of a text in which every line is ended by a newline.
TextLines(s) == IF s = <<>> THEN <<>> ELSE Split(Take(s, Len(s) - 1), <<10>>)

\* The lines read in turn: a line that begins with a space is joined, by a
\* newline and without that space, to the header read before it.
RECURSIVE Unfolded(_, _)
Unfolded(lines, acc) ==
  IF lines = <<>> THEN acc
  ELSE IF Head(lines) # <<>> /\ Head(lines)[1] = 32 /\ acc # <<>>
       THEN Unfolded(Tail(lines), [acc EXCEPT ![Len(acc)] = @ \o <<10>> \o Tail(Head(lines))])
       ELSE Unfolded(Tail(lines), Append(acc, Head(lines)))

\* The headers of a revision or release, each as "<key> <value>" with the
\* value as the caller gave it.
PersonHeader(label, identity, timestamp, tz) ==
  label \o <<32>> \o identity \o <<32>> \o FormatInt(timestamp) \o <<32>>
    \o (IF tz = <<>> THEN B(<<"+", "0", "0", "0", "0">>) ELSE tz)

ExtraHeadersGiven(hs) == [i \in 1..Len(hs) |-> hs[i][1] \o <<32>> \o hs[i][2]]

HeadersGiven(op, meta) ==
  IF op = "ComputeRevisionHash"
  THEN <<B(<<"t", "r", "e", "e", " ">>) \o meta.Directory>>
         \o [i \in 1..Len(meta.Parents) |->
               B(<<"p", "a", "r", "e", "n", "t", " ">>) \o meta.Parents[i]]
         \o <<PersonHeader(B(<<"a", "u", "t", "h", "o", "r">>), meta.Author,
                           meta.AuthorTimestamp, meta.AuthorTimezone),
              PersonHeader(B(<<"c", "o", "m", "m", "i", "t", "t", "e", "r">>), meta.Committer,
                           meta.CommitterTimestamp, meta.CommitterTimezone)>>
         \o ExtraHeadersGiven(meta.ExtraHeaders)
  ELSE <<B(<<"o", "b", "j", "e", "c", "t", " ">>) \o meta.Target.Hash,
         B(<<"t", "y", "p", "e", " ">>) \o GitTypeName(meta.Target.Type),
         B(<<"t", "a", "g", " ">>) \o meta.Name>>
         \o (IF meta.Author = <<>> THEN <<>>
             ELSE <<PersonHeader(B(<<"t", "a", "g", "g", "e", "r">>), meta.Author,
                                 meta.AuthorTimestamp, meta.AuthorTimezone)>>)
         \o ExtraHeadersGiven(meta.ExtraHeaders)

\* Every key of the extra headers hs is non-empty, holds no newline and does
\* not begin with a space.
KeysStartLines(hs) ==
  \A i \in 1..Len(hs) : hs[i][1] # <<>> /\ hs[i][1][1] # 32 /\ Index(hs[i][1], <<10>>) = 0

\* C29: in the body of a revision or release whose extra-header keys are
\* non-empty, hold no newline and do not begin with a space, every newline of
\* the author, committer, tagger, tag name and extra-header values is followed
\* by one space: the header block ends where the message begins and has no
\* blank line, and reading it line by line, with each line that begins with
\* a space joined to the header before it, gives back the headers with the
\* values as they were given.
C29_NewlinesContinueHeader ==
  (call.op \in {"ComputeRevisionHash", "ComputeReleaseHash"}
     /\ KeysStartLines(call.meta.ExtraHeaders))
    => /\ call.serialized =
            BeforeBlankLine(call.serialized)
              \o (IF call.meta.Message = <<>> THEN <<>> ELSE <<10>> \o call.meta.Message)
       /\ \A i \in 1..Len(TextLines(BeforeBlankLine(call.serialized))) :
            TextLines(BeforeBlankLine(call.serialized))[i] # <<>>
       /\ Unfolded(TextLines(BeforeBlankLine(call.serialized)), <<>>)
            = HeadersGiven(call.op, call.meta)

C29_Witness ==
  /\ call.op = "ComputeRevisionHash"
  /\ Index(call.meta.Author, <<10>>) # 0
  /\ call.meta.ExtraHeaders # <<>>
  /\ Index(call.meta.ExtraHeaders[1][2], <<10>>) # 0
  /\ Index(call.meta.Message, <<10, 10>>) # 0
  /\ Len(TextLines(BeforeBlankLine(call.serialized))) > Len(HeadersGiven(call.op, call.meta))
  /\ Unfolded(TextLines(BeforeBlankLine(call.serialized)), <<>>)
       = HeadersGiven(call.op, call.meta)

(***************************************************************************)
(* Extra headers read back from a serialized revision                       *)
(***************************************************************************)
\* Every key of the extra headers hs is non-empty, holds no space and no
\* newline, and is not a standard header of a commit.
KeysOfExtraHeaders(hs) ==
  \A i \in 1..Len(hs) :
    /\ hs[i][1] # <<>>
    /\ \A j \in 1..Len(hs[i][1]) : hs[i][1][j] \notin {32, 10}
    /\ hs[i][1] \notin CommitStandardHeaders

\* C30: for a revision whose extra-header keys are non-empty, hold no space
\* and no newline and are none of tree, parent, author, committer,
\* parseExtraHeaders on the serialized revision, with these four as standard
\* headers, returns the extra headers of the revision, keys and values, in
\* their order, whatever the values, the author, the committer and the
\* message hold.
C30_ExtraHeadersReadBack ==
  (call.op = "extractCommitExtraHeaders" /\ KeysOfExtraHeaders(call.meta.ExtraHeaders))
    => call.extraHeaders = call.meta.ExtraHeaders

====
